---- MODULE Spec2Model ----
(***************************************************************************)
(* Bearer-token acquisition, caching and 401 renewal of the Workfront and  *)
(* AEM adapters (src/workfront/index.js, src/unnamed/part_000).            *)
(*                                                                         *)
(* Execution model: one JavaScript event loop per adapter process.  A      *)
(* logical request is one call of makeWorkfrontRequest / makeAEMRequest.   *)
(* Every action below is one synchronous run of a request between two      *)
(* `await`s; runs of different logical requests of the same adapter        *)
(* interleave at the awaits and share the adapter's cached bearerToken.    *)
(* Reading a response body (response.text(), response.json()) touches no   *)
(* shared state and is folded into the run that receives the response.     *)
(* The two adapters are separate programs: `server` says which one runs.   *)
(* The identity provider and the downstream API are the environment: they  *)
(* answer every call with any of the replies listed below.                 *)
(* All logical requests run the same code; the history variables net and   *)
(* outcome are kept for the traced requests only.  When a logical request  *)
(* returns, its arguments and locals are gone.                             *)
(***************************************************************************)
EXTENDS Integers, Sequences, FiniteSets, TLC

\* ---------------------------------------------------------------- bounds
NumReqs == 2
MaxTok == 3

Reqs == 1..NumReqs

\* the logical requests whose network history and outcome are recorded
Traced == {1}
Tokens == 1..MaxTok

\* --------------------------------------------------------- configuration
Adapters == {"workfront", "aem"}

\* the server programs: the two adapters and the Playwright server, which
\* reads no environment and holds no token
Servers == Adapters \cup {"playwright"}

\* bearerToken: null; a response without access_token (or an empty one)
Null == 0

\* a fetch that rejects (no HTTP response) has no status and no body
NoStatus == 0
NoBody == "none"

WORKFRONT_baseUrl == "WORKFRONT_BASE_URL"
AEM_baseUrl == "AEM_BASE_URL"
tokenUrl == "ADOBE_IMS_TOKEN_URL"
clientId == "ADOBE_IMS_CLIENT_ID"
clientSecret == "ADOBE_IMS_CLIENT_SECRET"
scope == "ADOBE_IMS_SCOPES"

\* the name of the base URL variable of an adapter
BaseUrlVar(adapter) == IF adapter = "workfront" THEN WORKFRONT_baseUrl ELSE AEM_baseUrl

\* the variables an adapter reads from process.env
EnvVars(adapter) ==
    IF adapter \in Adapters
    THEN {BaseUrlVar(adapter), clientId, clientSecret, tokenUrl, scope}
    ELSE {}

\* process.env[name]: not set, set to the empty string, or set to a value
\* (a value is written as the name of its variable)
EnvValues == {"unset", "empty", "set"}

\* !process.env[name]
Falsy(value) == value \in {"unset", "empty"}

\* (mutant) the startup check looks at the base URL only
requiredEnvVars_BaseUrlOnly(adapter) == {BaseUrlVar(adapter)}

\* (mutant) the startup check requires the token URL and the scope as well
requiredEnvVars_All(adapter) == EnvVars(adapter)

requiredEnvVars(adapter) == {BaseUrlVar(adapter), clientId, clientSecret}

\* requiredEnvVars.filter(varName => !process.env[varName])
missingEnvVars(adapter, e) == {name \in requiredEnvVars(adapter) : Falsy(e[name])}

DefaultTokenUrl == "https://ims-na1.adobelogin.com/ims/token/v3"

DefaultScope(adapter) ==
    IF adapter = "workfront"
    THEN "openid,AdobeID,session,additional_info.projectedProductContext,profile,read_organizations,additional_info.roles"
    ELSE "openid,AdobeID,aem.assets.author,aem.folders,aem.fragments.management"

\* process.env[name] as a configuration value
EnvValue(e, name) ==
    CASE e[name] = "set" -> name
      [] e[name] = "empty" -> ""
      [] OTHER -> "undefined"

\* process.env[name] || dflt
EnvOr(e, name, dflt) == IF Falsy(e[name]) THEN dflt ELSE EnvValue(e, name)

\* imsConfig of WORKFRONT_CONFIG / AEM_CONFIG
ImsConfig(adapter, e) ==
    [tokenUrl |-> EnvOr(e, tokenUrl, DefaultTokenUrl),
     clientId |-> EnvValue(e, clientId),
     clientSecret |-> EnvValue(e, clientSecret),
     scope |-> EnvOr(e, scope, DefaultScope(adapter))]

\* the module has not built its configuration yet
NoConfig ==
    [tokenUrl |-> "none", clientId |-> "none", clientSecret |-> "none", scope |-> "none"]

\* an environment with every variable set
FullEnv(adapter) == [name \in EnvVars(adapter) |-> "set"]

FormType == "application/x-www-form-urlencoded"
JsonType == "application/json"

\* `Bearer ${token}`
Bearer(token) == <<"Bearer ", token>>

\* object spread {...a, ...b}: the keys of b win
Spread(a, b) == b @@ a

EmptyObject == <<>>

\* options.key || dflt
OrDefault(obj, key, dflt) == IF key \in DOMAIN obj THEN obj[key] ELSE dflt

\* obj[key] = value on an existing object
SetKey(obj, key, value) == (key :> value) @@ obj

\* ------------------------------------------------------------- the tools
\* get_project_names stands for the tools that pass no options (the get_*
\* tools), create_project for the tools that pass method, headers and body
\* (create_project, create_task, create_task_predecessor)
WorkfrontTools == {"get_project_names", "create_project"}
AEMTools == {"list_folders", "create_folders"}

PlaywrightTools == {"extract_images"}

Tools == WorkfrontTools \cup AEMTools \cup PlaywrightTools

\* the endpoint (Workfront) or url (AEM) the tool passes
ToolEndpoint(t) ==
    CASE t = "get_project_names" -> "/proj/search"
      [] t = "create_project" -> "/project"
      [] t = "list_folders" -> <<AEM_baseUrl, "/adobe/folders">>
      [] t = "create_folders" -> <<AEM_baseUrl, "/adobe/folders/">>

\* the options object the tool passes
ToolOptions(t) ==
    CASE t = "get_project_names" -> EmptyObject
      [] t = "create_project" ->
            [method |-> "POST", headers |-> ("Content-Type" :> <<FormType>>), body |-> "formData"]
      [] t = "list_folders" -> EmptyObject
      [] t = "create_folders" -> [method |-> "POST", data |-> "requestData"]

\* ------------------------------------------------------------ the network
Bodies == {"b1", "b2"}
Statuses == {200, 401, 500}

Ok(status) == status >= 200 /\ status <= 299

\* what the downstream API may answer
ApiResponses == [status : Statuses, body : Bodies]

\* what the token endpoint may answer after it has issued n tokens: 2xx
\* with a newly issued access_token (the identity provider issues a new
\* token with every successful answer, MaxTok of them at most) or without
\* one, or a non-2xx status with an error body
TokenResponses(n) ==
    [status : {200}, access_token : {Null} \cup {t \in Tokens : t = n + 1}, body : {"json"}]
        \cup [status : {400}, access_token : {Null}, body : {"b1"}]

FetchFailed == [status |-> NoStatus, access_token |-> Null, body |-> NoBody]
ApiFetchFailed == [status |-> NoStatus, body |-> NoBody]

TokenReplies(n) == TokenResponses(n) \cup {FetchFailed}
ApiReplies == ApiResponses \cup {ApiFetchFailed}

\* an Error: the pieces of its message, outermost prefix first, and the
\* status and body interpolated into the message (NoStatus, <<>> when it
\* interpolates none)
Err(text, status, body) == [text |-> text, status |-> status, body |-> body]

\* JSON.stringify(data)
JSONstringify(data) == <<"JSON.stringify", data>>

Wrap(prefix, e) == [e EXCEPT !.text = <<prefix>> \o @]

Success(value) == [ok |-> TRUE, value |-> value]
Failure(e) == [ok |-> FALSE, error |-> e]
Pending == [ok |-> FALSE, error |-> Err(<<>>, NoStatus, <<>>)]

\* --------------------------------------------------- the CallTool handler
\* the handler has returned nothing (yet)
NoReply == [isError |-> "none", text |-> <<>>, status |-> NoStatus, body |-> <<>>]

\* {content: [{type: "text", text}]}: the reply of a tool that returned
ToolResult(text) ==
    [isError |-> "absent", text |-> text, status |-> NoStatus, body |-> <<>>]

\* (mutant) the handler has no catch: the error leaves it
CallToolCatch_Uncaught(program, e) == NoReply

\* the catch of the handler: {content: [{type: "text", text: `Error:
\* ${error.message}`}], isError: true}; the Playwright handler returns the
\* content without the isError flag
CallToolCatch(program, e) ==
    [isError |-> IF program = "playwright" THEN "absent" ELSE "true",
     text |-> <<"Error: ">> \o e.text, status |-> e.status, body |-> e.body]

\* reading a property of undefined
TypeError == Err(<<"Cannot read properties of undefined">>, NoStatus, <<>>)

\* a 2xx body is JSON: "b1" has a data member, "b2" has none
HasData(body) == body = "b1"

\* what the tool method resolves or rejects with, given what its logical
\* request (Playwright: its try block) resolved or rejected with
ToolReturn(t, result) ==
    CASE t = "create_project" ->
            IF ~result.ok
            THEN Failure(Wrap("Project creation error: ", result.error))
            ELSE IF ~HasData(result.value)
            THEN Failure(Wrap("Project creation error: ", TypeError))
            ELSE Success(<<"Project created successfully!", result.value>>)
      [] t = "get_project_names" ->
            IF ~result.ok THEN result
            ELSE IF ~HasData(result.value) THEN Success(<<"No projects found.">>)
            ELSE Success(<<"Workfront Projects", result.value>>)
      [] t = "list_folders" ->
            IF ~result.ok THEN result ELSE Success(<<"**AEM Folders**", result.value>>)
      [] t = "create_folders" ->
            IF ~result.ok THEN result
            ELSE Success(<<"**Folders Creation Request Submitted Successfully**",
                           result.value>>)
      [] OTHER ->
            IF ~result.ok THEN result ELSE Success(<<"JSON.stringify", result.value>>)

\* what the handler returns for tool t of the program
CallToolReply(program, t, result) ==
    LET returned == ToolReturn(t, result) IN
    IF returned.ok THEN ToolResult(returned.value) ELSE CallToolCatch(program, returned.error)

\* the locals of extractImages before it has a browser
NoLocals == [browser |-> Null, completion |-> Pending]

\* ---------------------------------------------------------- query tools
\* an argument that is not passed
Undefined == -1

\* the Workfront tools that take `limit`
QueryTools == {"get_project_names", "get_portfolio_names", "get_task_names",
               "get_template_names", "get_users"}

\* a || b on numbers: undefined and 0 are falsy
JsOr(value, dflt) == IF value \in {Undefined, 0} THEN dflt ELSE value

\* (mutant) getProjectNames falls back to the documented 50
HandlerLimit_AsDocumented(t) ==
    CASE t = "get_portfolio_names" -> 100
      [] OTHER -> 50

\* the value `args.limit ||` falls back to in the handler of the tool
HandlerLimit(t) ==
    CASE t = "get_project_names" -> 20
      [] t = "get_portfolio_names" -> 100
      [] t = "get_task_names" -> 50
      [] t = "get_template_names" -> 50
      [] t = "get_users" -> 50

\* `default` of `limit` in the inputSchema of the tool (and in the README)
SchemaLimit(t) ==
    CASE t = "get_project_names" -> 50
      [] t = "get_portfolio_names" -> 100
      [] t = "get_task_names" -> 50
      [] t = "get_template_names" -> 50
      [] t = "get_users" -> 50

\* the resource and the fields the tool searches
SearchPath(t) ==
    CASE t = "get_project_names" -> "/proj/search?fields=ID,name"
      [] t = "get_portfolio_names" -> "/port/search?fields=ID,name"
      [] t = "get_task_names" -> "/task/search?fields=ID,name,projectID"
      [] t = "get_template_names" -> "/tmpl/search?fields=ID,name,isActive"
      [] t = "get_users" -> "/user/search?fields=ID,name,emailAddr,isActive"

\* `${path}&$$LIMIT=${limit}&$$FIRST=${first}`; getTaskNames sends no
\* $$FIRST.  The filters getTaskNames and getUsers append (projectID,
\* isActive) come after these and are left out.
SearchEndpoint(t, args) ==
    [search |-> SearchPath(t),
     LIMIT |-> JsOr(args.limit, HandlerLimit(t)),
     FIRST |-> IF t = "get_task_names" THEN Undefined ELSE JsOr(args.first, 0)]

\* the calls of the query tools that are examined
Queries ==
    [tool : QueryTools,
     args : [limit : {Undefined, 0, 1, 20, 50, 100, 200}, first : {Undefined, 0, 1, 50}]]

NoQuery == [tool |-> "none", args |-> [limit |-> Undefined, first |-> Undefined]]
NoEndpoint == [search |-> "none", LIMIT |-> Undefined, FIRST |-> Undefined]

\* ----------------------------------------------------------- Excel server
\* the file paths that are examined, all absolute
Paths == {"/out.xlsx", "/out.csv", "/out.txt"}

\* path.extname(filePath).toLowerCase()
extname(filePath) ==
    CASE filePath = "/out.xlsx" -> ".xlsx"
      [] filePath = "/out.csv" -> ".csv"
      [] filePath = "/out.txt" -> ".txt"

\* no error is thrown
Valid == ""

\* the error validateFilePath throws for an absolute path, if any
validateFilePath(filePath) ==
    IF extname(filePath) \in {".xlsx", ".xls", ".csv"}
    THEN Valid
    ELSE "File must be an Excel file (.xlsx, .xls) or CSV file (.csv)"

\* the sheets a workbook may have and the columns a row may have, in order
SheetNames == {"Sheet1", "Data"}
Columns == <<"a", "b">>

\* an empty cell
Blank == 0

\* the rows (objects) that are written; a row has a value in some column
RowA == [a |-> 1]
RowB == [b |-> 2]
RowAB == [a |-> 2, b |-> 1]

\* a worksheet: its header row and its cells
NoSheet == [present |-> FALSE, header |-> <<>>, cells |-> <<>>]

\* XLSX.utils.json_to_sheet: the header is the keys of the rows, a row
\* becomes the cells under the header, blank where it lacks the key
json_to_sheet(rows) ==
    LET header == SelectSeq(Columns, LAMBDA k : \E i \in 1..Len(rows) : k \in DOMAIN rows[i])
    IN  [present |-> TRUE,
         header |-> header,
         cells |-> [i \in 1..Len(rows) |->
                      [j \in 1..Len(header) |->
                         IF header[j] \in DOMAIN rows[i] THEN rows[i][header[j]] ELSE Blank]]]

\* XLSX.utils.sheet_to_json: a row of cells becomes an object of its cells
\* that are not blank, keyed by the header; blank rows are skipped
sheet_to_json(sheet) ==
    LET filled(row) == {j \in 1..Len(sheet.header) : row[j] # Blank}
        column(k) == CHOOSE j \in 1..Len(sheet.header) : sheet.header[j] = k
        object(row) == [k \in {sheet.header[j] : j \in filled(row)} |-> row[column(k)]]
        kept == SelectSeq(sheet.cells, LAMBDA row : filled(row) # {})
    IN  [i \in 1..Len(kept) |-> object(kept[i])]

\* XLSX.utils.book_new()
book_new == [n \in SheetNames |-> NoSheet]

\* a file that does not exist, and a file that holds a workbook
NoFile == [exists |-> FALSE, Sheets |-> book_new]
File(workbook) == [exists |-> TRUE, Sheets |-> workbook]

\* readWorkbook(filePath)
readWorkbook(file) == file.Sheets

\* `workbook.Sheets[sheetName] = worksheet`, as book_append_sheet does
SetSheet(workbook, sheetName, worksheet) ==
    [workbook EXCEPT ![sheetName] = worksheet]

\* (mutant) the .xlsx branch starts from a new workbook whatever `append` is
ExistingWorkbook_New(args, file) == book_new

\* the workbook the .xlsx branch starts from
ExistingWorkbook(args, file) ==
    IF args.append = "true" /\ file.exists THEN readWorkbook(file) ELSE book_new

\* the file writeExcelFile writes: for .csv one sheet "Sheet1" of the data;
\* otherwise the data joins the rows of the sheet when `append` is set and
\* the sheet exists, and replaces the sheet when not
WrittenFile(args, file) ==
    IF extname(args.file_path) = ".csv"
    THEN File(SetSheet(book_new, "Sheet1", json_to_sheet(args.data)))
    ELSE LET workbook == ExistingWorkbook(args, file)
             sheetName == IF args.sheet_name = "" THEN "Sheet1" ELSE args.sheet_name
         IN  IF workbook[sheetName].present /\ args.append = "true"
             THEN File(SetSheet(workbook, sheetName,
                       json_to_sheet(sheet_to_json(workbook[sheetName]) \o args.data)))
             ELSE File(SetSheet(workbook, sheetName, json_to_sheet(args.data)))

\* the error writeExcelFile throws before it touches the file, if any
WriteExcelError(args) ==
    CASE validateFilePath(args.file_path) # Valid -> validateFilePath(args.file_path)
      [] args.data = <<>> -> "Data array cannot be empty"
      [] OTHER -> Valid

\* what writeExcelFile has done
NotCalled == "not called"
Written == "Excel File Written Successfully"

\* the calls of write_excel_file that are examined: `sheet_name` and
\* `append` may be left out ("" and "absent"), `data` is an array of rows
ExcelCalls ==
    [file_path : Paths,
     data : {<<>>, <<RowA>>, <<RowB>>, <<RowAB, RowA>>},
     sheet_name : SheetNames \cup {""},
     append : {"absent", "false", "true"}]

NoExcelArgs == [file_path |-> "none", data |-> <<>>, sheet_name |-> "", append |-> "absent"]

\* the files a call may find at its path; a .csv file holds one sheet
Files(filePath) ==
    {NoFile,
     File(SetSheet(book_new, "Sheet1", json_to_sheet(<<RowAB>>)))}
    \cup IF extname(filePath) = ".csv" THEN {}
         ELSE {File(SetSheet(SetSheet(book_new, "Sheet1", json_to_sheet(<<RowA, RowB>>)),
                             "Data", json_to_sheet(<<RowAB>>)))}

NoDisk == NoFile

\* ------------------------------------------------------ PowerPoint server
PptxTools == {"read_pptx", "list_slides", "extract_slide_text"}

\* the files a call may name: one that does not exist, one that is no zip
\* archive, an archive whose second slide cannot be read, an archive with
\* a slide file whose name has no number, and a presentation of two slides
PptxFiles == {"missing", "not a zip", "corrupt", "bad name", "deck"}

\* Object.keys(entries).filter(...).sort(): the slide files of the archive
SlideFiles(file) ==
    IF file = "bad name"
    THEN <<"ppt/slides/slide1.xml", "ppt/slides/slideshow.xml">>
    ELSE <<"ppt/slides/slide1.xml", "ppt/slides/slide2.xml">>

\* `ppt/slides/slide${slideNumber}.xml`
SlideFile(slideNumber) ==
    CASE slideNumber = 1 -> "ppt/slides/slide1.xml"
      [] slideNumber = 2 -> "ppt/slides/slide2.xml"
      [] OTHER -> "ppt/slides/slide3.xml"

\* zip.entries() rejects
EntriesFail(file) == file = "not a zip"

\* zip.entryData(slideFile) rejects: no archive, no such entry, or an
\* entry that cannot be inflated
EntryDataFails(file, slideFile) ==
    \/ file = "not a zip"
    \/ \A i \in 1..Len(SlideFiles(file)) : SlideFiles(file)[i] # slideFile
    \/ file = "corrupt" /\ slideFile = "ppt/slides/slide2.xml"

\* slideFile.match(/slide(\d+)\.xml/) is null
NoSlideNumber(slideFile) == slideFile = "ppt/slides/slideshow.xml"

\* the catch of the tool method: new Error(`Failed to ...: ${error.message}`)
PptxToolCatch(t, message) ==
    CASE t = "read_pptx" -> <<"Failed to read PPTX file: ">> \o message
      [] t = "list_slides" -> <<"Failed to list slides: ">> \o message
      [] t = "extract_slide_text" -> <<"Failed to extract slide text: ">> \o message

\* what the SDK answers when the handler throws an McpError: its code and
\* its message
McpError(code, message) == [code |-> code, message |-> message]

\* the catch of the CallTool handler: whatever was thrown in the try
\* becomes an McpError with the code InternalError
PptxHandlerCatch(message) ==
    McpError("InternalError", <<"Tool execution failed: ">> \o message)

\* the tool returned its content
PptxResult == McpError("none", <<"content">>)

\* the calls that are examined
PptxCalls == [name : PptxTools \cup {"unknown"}, file_path : PptxFiles, slide_number : 1..3]

NoPptx == [name |-> "none", file_path |-> "missing", slide_number |-> 1]
NoPptxReply == McpError("none", <<>>)

VARIABLES
    env,              \* process.env as the adapter reads it
    proc,             \* the process: "loading", "configured", "connected", "exited"
    imsConfig,        \* WORKFRONT_CONFIG.imsConfig / AEM_CONFIG.imsConfig
    issued,           \* how many tokens the identity provider has issued
    server,           \* the adapter program that runs: "workfront" or "aem"
    bearerToken,      \* WORKFRONT_CONFIG.bearerToken / AEM_CONFIG.bearerToken
    pc,               \* where each logical request is suspended
    tool,             \* the tool that issued the logical request
    phase,            \* who awaits getBearerToken: "ensure" or "renew"
    requestOptions,   \* local requestOptions of the logical request
    net,              \* history: calls, returns and network traffic of a request
    outcome,          \* what the logical request resolved or rejected with
    toolReply,        \* history: what the CallTool handler returned
    browser,          \* this.browser of the Playwright server
    launched,         \* how many browsers chromium.launch has started
    contexts,         \* the browser contexts that are open
    locals,           \* extractImages: its browser and the completion of its try
    query,            \* a query tool of Workfront and the arguments of its call
    queryEndpoint,    \* the endpoint the query tool passes to makeWorkfrontRequest
    excelArgs,        \* the arguments of a call of write_excel_file
    original,         \* the files before write_excel_file is called
    disk,             \* the files
    written,          \* what write_excel_file returned or threw
    pptx,             \* the tool call the PowerPoint server handles
    pptxPc,           \* where the handler of the PowerPoint server is
    slideIndex,       \* readPPTX: the slide file its loop is at
    openZips,         \* the zip archives that are open
    pptxReply         \* what the handler of the PowerPoint server answered

vars == <<env, proc, imsConfig, issued, server, bearerToken, pc, tool, phase,
          requestOptions, net, outcome, toolReply, browser, launched, contexts,
          locals, query, queryEndpoint, excelArgs, original, disk, written,
          pptx, pptxPc, slideIndex, openZips, pptxReply>>

\* the state of the Playwright server
browserVars == <<browser, launched, contexts, locals>>

\* the call of a query tool and the call of write_excel_file
queryVars == <<query, queryEndpoint>>
excelVars == <<excelArgs, original, disk, written>>
pptxVars == <<pptx, pptxPc, slideIndex, openZips, pptxReply>>

\* what no logical request changes
configVars == <<env, proc, imsConfig, queryVars, excelVars, pptxVars>>

\* the state of the logical requests of a process that serves none yet
NoRequests ==
    /\ issued = 0
    /\ bearerToken = Null
    /\ pc = [r \in Reqs |-> "idle"]
    /\ tool = [r \in Reqs |-> "none"]
    /\ phase = [r \in Reqs |-> "none"]
    /\ requestOptions = [r \in Reqs |-> EmptyObject]
    /\ net = [r \in Reqs |-> <<>>]
    /\ outcome = [r \in Reqs |-> Pending]
    /\ toolReply = [r \in Reqs |-> NoReply]
    /\ browser = Null
    /\ launched = 0
    /\ contexts = {}
    /\ locals = [r \in Reqs |-> NoLocals]

\* no query tool is called
NoQueryCall ==
    /\ query = NoQuery
    /\ queryEndpoint = NoEndpoint

\* write_excel_file is not called
NoExcelCall ==
    /\ excelArgs = NoExcelArgs
    /\ original = NoDisk
    /\ disk = NoDisk
    /\ written = NotCalled

\* the PowerPoint server handles no call
NoPptxCall ==
    /\ pptx = NoPptx
    /\ pptxPc = "idle"
    /\ slideIndex = 1
    /\ openZips = {}
    /\ pptxReply = NoPptxReply

\* a server that has started, the adapters with a complete environment
Init ==
    /\ server \in Servers
    /\ env = FullEnv(server)
    /\ proc = "connected"
    /\ imsConfig = IF server \in Adapters THEN ImsConfig(server, env) ELSE NoConfig
    /\ NoRequests
    /\ NoQueryCall
    /\ NoExcelCall
    /\ NoPptxCall

\* ---------------------------------------------------------------- history
\* the logical request starts for tool t
Called(t) == [type |-> "call", tool |-> t]

\* fn resolves with value
Returned(fn, value) == [type |-> "return", fn |-> fn, value |-> value]

\* fetch(tokenUrl, {method: 'POST', headers, body: formData})
TokenRequest ==
    [type |-> "token_request", url |-> imsConfig.tokenUrl, method |-> "POST",
     headers |-> ("Content-Type" :> <<FormType>>),
     body |-> [grant_type |-> "client_credentials",
               client_id |-> imsConfig.clientId,
               client_secret |-> imsConfig.clientSecret,
               scope |-> imsConfig.scope]]

TokenReply(reply) ==
    [type |-> "token_response", status |-> reply.status,
     access_token |-> reply.access_token, body |-> reply.body]

\* fetch(url, options) of a downstream API request
ApiRequest(url, options) ==
    [type |-> "request", url |-> url,
     method |-> OrDefault(options, "method", "GET"),
     headers |-> OrDefault(options, "headers", EmptyObject),
     body |-> OrDefault(options, "body", NoBody)]

ApiReply(reply) ==
    [type |-> "response", status |-> reply.status, body |-> reply.body]

\* a response whose body the code never reads
Unread(reply) == [type |-> "response", status |-> reply.status, body |-> NoBody]

Log(r, events) == IF r \in Traced THEN [net EXCEPT ![r] = @ \o events] ELSE net

Settle(r, result) == IF r \in Traced THEN [outcome EXCEPT ![r] = result] ELSE outcome

Answer(r, returned) ==
    IF r \in Traced THEN [toolReply EXCEPT ![r] = returned] ELSE toolReply

\* the logical request resolves or rejects with result, the tool method
\* and the handler return
Finish(r, result) ==
    /\ pc' = [pc EXCEPT ![r] = "done"]
    /\ tool' = [tool EXCEPT ![r] = "none"]
    /\ phase' = [phase EXCEPT ![r] = "none"]
    /\ requestOptions' = [requestOptions EXCEPT ![r] = EmptyObject]
    /\ outcome' = Settle(r, result)
    /\ toolReply' = Answer(r, CallToolReply(server, tool[r], result))

\* ------------------------------------------------------- getBearerToken
\* what Workfront's getBearerToken resolves or rejects with on a reply
WorkfrontTokenResult(reply) ==
    IF reply.status = NoStatus
    THEN Failure(Wrap("Token retrieval error: ", Err(<<"fetch failed">>, NoStatus, <<>>)))
    ELSE IF ~Ok(reply.status)
    THEN Failure(Wrap("Token retrieval error: ",
             Err(<<"Adobe IMS authentication error: ">>, reply.status, <<reply.body>>)))
    ELSE IF reply.access_token = Null
    THEN Failure(Wrap("Token retrieval error: ",
             Err(<<"No access_token received from Adobe IMS">>, NoStatus, <<>>)))
    ELSE Success(reply.access_token)

\* what AEM's getBearerToken resolves or rejects with on a reply
AEMTokenResult(reply) ==
    IF reply.status = NoStatus
    THEN Failure(Wrap("Request failed: ", Err(<<"fetch failed">>, NoStatus, <<>>)))
    ELSE IF ~Ok(reply.status)
    THEN Failure(Err(<<"Adobe IMS authentication error: ">>, reply.status,
                     JSONstringify(reply.body)))
    ELSE IF reply.access_token = Null
    THEN Failure(Err(<<"No access_token received from Adobe IMS">>, NoStatus, <<>>))
    ELSE Success(reply.access_token)

\* (mutant) every failure of the token call raises the same error
TokenResult_OneError(adapter, reply) ==
    IF reply.status # NoStatus /\ Ok(reply.status) /\ reply.access_token # Null
    THEN Success(reply.access_token)
    ELSE Failure(Err(<<"Token retrieval error: ">>, NoStatus, <<>>))

TokenResult(adapter, reply) ==
    IF adapter = "workfront" THEN WorkfrontTokenResult(reply) ELSE AEMTokenResult(reply)

\* (mutant) getBearerToken returns the token without storing it
StoredToken_Unstored(reply) == bearerToken

\* the token getBearerToken stores on a successful reply
StoredToken(reply) == reply.access_token

\* (mutant) a failed acquisition clears the cached token
FailedToken_Cleared(token) == Null

\* the cached token after getBearerToken threw: no path that throws
\* assigns bearerToken
FailedToken(token) == token

\* the error a rejection of getBearerToken becomes in the logical request:
\* the renewal runs inside makeWorkfrontRequest's try, ensureValidToken
\* runs before it
Rethrow(ph, e) == IF ph = "renew" THEN Wrap("Workfront request error: ", e) ELSE e

\* the synchronous head of getBearerToken: the POST to the token endpoint
CallGetBearerToken(r, ph, events) ==
    /\ net' = Log(r, events \o <<TokenRequest>>)
    /\ phase' = [phase EXCEPT ![r] = ph]
    /\ pc' = [pc EXCEPT ![r] = "getBearerToken"]

\* (mutant) ensureValidToken swallows the error of getBearerToken and the
\* logical request goes on without a token
getBearerToken_Swallow(r) ==
    /\ pc[r] = "getBearerToken"
    /\ \E reply \in TokenReplies(issued) :
         LET res == TokenResult(server, reply) IN
         /\ issued' = IF reply.access_token # Null THEN issued + 1 ELSE issued
         /\ bearerToken' = IF res.ok THEN StoredToken(reply) ELSE bearerToken
         /\ net' = Log(r, <<TokenReply(reply)>>)
         /\ pc' = [pc EXCEPT ![r] =
                IF phase[r] = "ensure" THEN "ensureValidToken" ELSE "renewed"]
         /\ UNCHANGED <<tool, phase, requestOptions, outcome, toolReply>>
    /\ UNCHANGED server
    /\ UNCHANGED <<configVars, browserVars>>

\* the token endpoint answers (or the fetch rejects): getBearerToken stores
\* and returns the token, or throws
getBearerToken(r) ==
    /\ pc[r] = "getBearerToken"
    /\ \E reply \in TokenReplies(issued) :
         LET res == TokenResult(server, reply) IN
         /\ issued' = IF reply.access_token # Null THEN issued + 1 ELSE issued
         /\ IF res.ok
            THEN /\ bearerToken' = StoredToken(reply)
                 /\ net' = Log(r, <<TokenReply(reply),
                                    Returned("getBearerToken", res.value)>>)
                 /\ pc' = [pc EXCEPT ![r] =
                        IF phase[r] = "ensure" THEN "ensureValidToken" ELSE "renewed"]
                 /\ UNCHANGED <<tool, phase, requestOptions, outcome, toolReply>>
            ELSE /\ net' = Log(r, <<TokenReply(reply)>>)
                 /\ Finish(r, Failure(Rethrow(phase[r], res.error)))
                 /\ bearerToken' = FailedToken(bearerToken)
    /\ UNCHANGED server
    /\ UNCHANGED <<configVars, browserVars>>

\* ------------------------------------------------------ ensureValidToken
\* (mutant) ensureValidToken acquires a token on every call
NeedsToken_Always(token) == TRUE

\* (mutant) ensureValidToken waits for the call another request has in
\* flight instead of starting its own
NeedsToken_SingleFlight(token) ==
    token = Null /\ \A q \in Reqs : pc[q] # "getBearerToken"

\* whether ensureValidToken has to call getBearerToken
NeedsToken(token) == token = Null

\* the synchronous head of ensureValidToken, called first by both
\* makeWorkfrontRequest and makeAEMRequest for tool t
CallEnsureValidToken(r, t) ==
    IF NeedsToken(bearerToken)
    THEN CallGetBearerToken(r, "ensure", <<Called(t)>>)
    ELSE /\ net' = Log(r, <<Called(t),
                            Returned("ensureValidToken", bearerToken)>>)
         /\ pc' = [pc EXCEPT ![r] = "ensured"]
         /\ phase' = [phase EXCEPT ![r] = "ensure"]

\* ensureValidToken resumes after its await of getBearerToken and returns
\* the cached token
ensureValidToken(r) ==
    /\ pc[r] = "ensureValidToken"
    /\ net' = Log(r, <<Returned("ensureValidToken", bearerToken)>>)
    /\ pc' = [pc EXCEPT ![r] = "ensured"]
    /\ UNCHANGED <<issued, server, bearerToken, tool, phase, requestOptions, outcome, toolReply>>
    /\ UNCHANGED <<configVars, browserVars>>

\* ------------------------------------------------- makeWorkfrontRequest
WorkfrontUrl(endpoint) == <<WORKFRONT_baseUrl, endpoint>>

\* the token the Authorization header is built from
HeaderToken == bearerToken

\* requestOptions as makeWorkfrontRequest builds it
WorkfrontRequestOptions(token, options) ==
    Spread([method |-> OrDefault(options, "method", "GET"),
            headers |-> Spread(("Authorization" :> Bearer(token)),
                               OrDefault(options, "headers", EmptyObject))],
           options)

\* (mutant) the retry keeps the Authorization header of the first attempt
RetryRequestOptions_Stale(ro, token) == ro

\* requestOptions after the renewal updated its Authorization header
RetryRequestOptions(ro, token) ==
    [ro EXCEPT !.headers = SetKey(@, "Authorization", Bearer(token))]

\* what a first response other than 401 makes the logical request end with
WorkfrontResult(reply) ==
    IF reply.status = NoStatus
    THEN Failure(Wrap("Workfront request error: ", Err(<<"fetch failed">>, NoStatus, <<>>)))
    ELSE IF ~Ok(reply.status)
    THEN Failure(Wrap("Workfront request error: ",
             Err(<<"Workfront API error: ">>, reply.status, <<reply.body>>)))
    ELSE Success(reply.body)

\* (mutant) the retry is judged by the first response, the 401
WorkfrontRetryResult_FirstResponse(reply) ==
    Failure(Wrap("Workfront request error: ",
        Err(<<"Workfront API error after token renewal: ">>, 401, <<reply.body>>)))

\* what the response to the retried request makes the logical request end with
WorkfrontRetryResult(reply) ==
    IF reply.status = NoStatus
    THEN Failure(Wrap("Workfront request error: ", Err(<<"fetch failed">>, NoStatus, <<>>)))
    ELSE IF ~Ok(reply.status)
    THEN Failure(Wrap("Workfront request error: ",
             Err(<<"Workfront API error after token renewal: ">>, reply.status,
                 <<reply.body>>)))
    ELSE Success(reply.body)

\* (mutant) no response starts a renewal
IsExpired_Never(reply) == FALSE

\* (mutant) every HTTP error status starts a renewal
IsExpired_AnyError(reply) == reply.status # NoStatus /\ ~Ok(reply.status)

\* (mutant) a server error starts a renewal as well
IsExpired_ServerError(reply) == reply.status \in {401, 500}

\* whether a first response starts the renewal
IsExpired(reply) == reply.status = 401

makeWorkfrontRequest(r) ==
    /\ proc = "connected"
    /\ server = "workfront"
    /\ pc[r] = "idle"
    /\ \E t \in WorkfrontTools :
         /\ tool' = [tool EXCEPT ![r] = t]
         /\ CallEnsureValidToken(r, t)
    /\ UNCHANGED <<issued, server, bearerToken, requestOptions, outcome, toolReply>>
    /\ UNCHANGED <<configVars, browserVars>>

\* after `await this.ensureValidToken()`: build requestOptions, fetch
makeWorkfrontRequest_fetch(r) ==
    /\ pc[r] = "ensured"
    /\ server = "workfront"
    /\ LET ro == WorkfrontRequestOptions(HeaderToken, ToolOptions(tool[r])) IN
         /\ requestOptions' = [requestOptions EXCEPT ![r] = ro]
         /\ net' = Log(r, <<ApiRequest(WorkfrontUrl(ToolEndpoint(tool[r])), ro)>>)
    /\ pc' = [pc EXCEPT ![r] = "fetch"]
    /\ UNCHANGED <<issued, server, bearerToken, tool, phase, outcome, toolReply>>
    /\ UNCHANGED <<configVars, browserVars>>

\* the first response: 401 starts the renewal, anything else is final
makeWorkfrontRequest_response(r) ==
    /\ pc[r] = "fetch"
    /\ server = "workfront"
    /\ \E reply \in ApiReplies :
         IF IsExpired(reply)
         THEN /\ CallGetBearerToken(r, "renew", <<Unread(reply)>>)
              /\ UNCHANGED <<tool, requestOptions, outcome, toolReply>>
         ELSE /\ net' = Log(r, <<ApiReply(reply)>>)
              /\ Finish(r, WorkfrontResult(reply))
    /\ UNCHANGED <<issued, server, bearerToken>>
    /\ UNCHANGED <<configVars, browserVars>>

\* after `await this.getBearerToken()` of the renewal: update the
\* Authorization header and fetch again
makeWorkfrontRequest_retry(r) ==
    /\ pc[r] = "renewed"
    /\ LET ro == RetryRequestOptions(requestOptions[r], HeaderToken) IN
         /\ requestOptions' = [requestOptions EXCEPT ![r] = ro]
         /\ net' = Log(r, <<ApiRequest(WorkfrontUrl(ToolEndpoint(tool[r])), ro)>>)
    /\ pc' = [pc EXCEPT ![r] = "retryFetch"]
    /\ UNCHANGED <<issued, server, bearerToken, tool, phase, outcome, toolReply>>
    /\ UNCHANGED <<configVars, browserVars>>

\* (mutant) a 401 to the retried request starts another renewal
makeWorkfrontRequest_retryResponse_Loop(r) ==
    /\ pc[r] = "retryFetch"
    /\ \E reply \in ApiReplies :
         IF IsExpired(reply)
         THEN /\ net' = Log(r, <<Unread(reply), TokenRequest>>)
              /\ pc' = [pc EXCEPT ![r] = "getBearerToken"]
              /\ UNCHANGED <<tool, phase, requestOptions, outcome, toolReply>>
         ELSE /\ net' = Log(r, <<ApiReply(reply)>>)
              /\ Finish(r, WorkfrontRetryResult(reply))
    /\ UNCHANGED <<issued, server, bearerToken>>
    /\ UNCHANGED <<configVars, browserVars>>

\* (mutant) a 401 to the retried request sends the request once more
makeWorkfrontRequest_retryResponse_Again(r) ==
    /\ pc[r] = "retryFetch"
    /\ \E reply \in ApiReplies :
         IF IsExpired(reply)
         THEN /\ pc' = [pc EXCEPT ![r] = "renewed"]
              /\ UNCHANGED <<net, tool, phase, requestOptions, outcome, toolReply>>
         ELSE /\ net' = Log(r, <<ApiReply(reply)>>)
              /\ Finish(r, WorkfrontRetryResult(reply))
    /\ UNCHANGED <<issued, server, bearerToken>>
    /\ UNCHANGED <<configVars, browserVars>>

\* the response to the retried request is final
makeWorkfrontRequest_retryResponse(r) ==
    /\ pc[r] = "retryFetch"
    /\ \E reply \in ApiReplies :
         /\ net' = Log(r, <<ApiReply(reply)>>)
         /\ Finish(r, WorkfrontRetryResult(reply))
    /\ UNCHANGED <<issued, server, bearerToken>>
    /\ UNCHANGED <<configVars, browserVars>>

\* ------------------------------------------------------- makeAEMRequest
\* requestOptions as makeAEMRequest builds it
AEMRequestOptions(token, options) ==
    LET headers == Spread(("Authorization" :> Bearer(token))
                              @@ ("x-api-key" :> <<imsConfig.clientId>>)
                              @@ ("Content-Type" :> <<JsonType>>),
                          OrDefault(options, "headers", EmptyObject))
        base == [method |-> OrDefault(options, "method", "GET"), headers |-> headers]
    IN IF "data" \in DOMAIN options
       THEN SetKey(base, "body", JSONstringify(options.data))
       ELSE base

\* what a response makes the logical request end with
AEMResult(reply) ==
    IF reply.status = NoStatus
    THEN Failure(Wrap("Request failed: ", Err(<<"fetch failed">>, NoStatus, <<>>)))
    ELSE IF ~Ok(reply.status)
    THEN Failure(Err(<<"AEM API error: ">>, reply.status, JSONstringify(reply.body)))
    ELSE Success(reply.body)

makeAEMRequest(r) ==
    /\ proc = "connected"
    /\ server = "aem"
    /\ pc[r] = "idle"
    /\ \E t \in AEMTools :
         /\ tool' = [tool EXCEPT ![r] = t]
         /\ CallEnsureValidToken(r, t)
    /\ UNCHANGED <<issued, server, bearerToken, requestOptions, outcome, toolReply>>
    /\ UNCHANGED <<configVars, browserVars>>

\* after `await this.ensureValidToken()`: build the headers, makeRequest
makeAEMRequest_fetch(r) ==
    /\ pc[r] = "ensured"
    /\ server = "aem"
    /\ LET ro == AEMRequestOptions(HeaderToken, ToolOptions(tool[r])) IN
         /\ requestOptions' = [requestOptions EXCEPT ![r] = ro]
         /\ net' = Log(r, <<ApiRequest(ToolEndpoint(tool[r]), ro)>>)
    /\ pc' = [pc EXCEPT ![r] = "fetch"]
    /\ UNCHANGED <<issued, server, bearerToken, tool, phase, outcome, toolReply>>
    /\ UNCHANGED <<configVars, browserVars>>

\* makeRequest returns {ok, status, data} or throws; every response is final
makeAEMRequest_response(r) ==
    /\ pc[r] = "fetch"
    /\ server = "aem"
    /\ \E reply \in ApiReplies :
         /\ net' = Log(r, <<ApiReply(reply)>>)
         /\ Finish(r, AEMResult(reply))
    /\ UNCHANGED <<issued, server, bearerToken>>
    /\ UNCHANGED <<configVars, browserVars>>

\* ---------------------------------------------------------- extractImages
\* the state of the token adapters, which the Playwright server has not
tokenVars == <<issued, bearerToken, phase, requestOptions, net>>

LaunchError == Err(<<"browserType.launch: ", "failed">>, NoStatus, <<>>)
NewContextError == Err(<<"browser.newContext: ", "failed">>, NoStatus, <<>>)
PageError == Err(<<"page.goto: ", "failed">>, NoStatus, <<>>)
CloseError == Err(<<"browserContext.close: ", "failed">>, NoStatus, <<>>)

\* extractImages throws or rejects outside its try: its handler returns
Reject(r, e) ==
    /\ Finish(r, Failure(e))
    /\ locals' = [locals EXCEPT ![r] = NoLocals]

\* the handler calls extractImages, which calls ensureBrowser: this.browser
\* is returned if there is one, else chromium.launch is awaited
extractImages(r) ==
    /\ proc = "connected"
    /\ server = "playwright"
    /\ pc[r] = "idle"
    /\ tool' = [tool EXCEPT ![r] = "extract_images"]
    /\ IF browser = Null
       THEN /\ pc' = [pc EXCEPT ![r] = "launch"]
            /\ UNCHANGED locals
       ELSE /\ pc' = [pc EXCEPT ![r] = "newContext"]
            /\ locals' = [locals EXCEPT ![r].browser = browser]
    /\ UNCHANGED <<browser, launched, contexts, outcome, toolReply>>
    /\ UNCHANGED <<configVars, server, tokenVars>>

\* chromium.launch resolves: ensureBrowser stores the browser and returns
\* it, extractImages asks it for a context; or launch rejects
ensureBrowser(r) ==
    /\ pc[r] = "launch"
    /\ \/ /\ launched' = launched + 1
          /\ browser' = launched + 1
          /\ locals' = [locals EXCEPT ![r].browser = launched + 1]
          /\ pc' = [pc EXCEPT ![r] = "newContext"]
          /\ UNCHANGED <<tool, phase, requestOptions, outcome, toolReply>>
       \/ /\ Reject(r, LaunchError)
          /\ UNCHANGED <<browser, launched>>
    /\ UNCHANGED <<contexts, issued, bearerToken, net>>
    /\ UNCHANGED <<configVars, server>>

\* browser.newContext resolves and the try block starts, or it rejects
extractImages_newContext(r) ==
    /\ pc[r] = "newContext"
    /\ \/ /\ contexts' = contexts \cup {<<r, locals[r].browser>>}
          /\ pc' = [pc EXCEPT ![r] = "page"]
          /\ UNCHANGED <<tool, phase, requestOptions, outcome, toolReply, locals>>
       \/ /\ Reject(r, NewContextError)
          /\ UNCHANGED contexts
    /\ UNCHANGED <<browser, launched, issued, bearerToken, net>>
    /\ UNCHANGED <<configVars, server>>

\* the try block (newPage, goto, the waits, the evaluations) returns the
\* images or throws; the finally calls context.close
extractImages_page(r) ==
    /\ pc[r] = "page"
    /\ \E completion \in {Success("images"), Failure(PageError)} :
         locals' = [locals EXCEPT ![r].completion = completion]
    /\ pc' = [pc EXCEPT ![r] = "finally"]
    /\ UNCHANGED <<browser, launched, contexts, tool, outcome, toolReply>>
    /\ UNCHANGED <<configVars, server, tokenVars>>

\* (mutant) the context is closed at the end of the try block only, so a
\* try block that throws leaves it open
extractImages_finally_OnSuccess(r) ==
    /\ pc[r] = "finally"
    /\ contexts' = IF locals[r].completion.ok
                   THEN contexts \ {<<r, locals[r].browser>>}
                   ELSE contexts
    /\ Finish(r, locals[r].completion)
    /\ locals' = [locals EXCEPT ![r] = NoLocals]
    /\ UNCHANGED <<browser, launched, issued, bearerToken, net>>
    /\ UNCHANGED <<configVars, server>>

\* context.close resolves and extractImages completes as its try block
\* did, or close rejects and its error is the one thrown.  close rejects
\* when the context or its browser is gone already, so the context is not
\* open afterwards in either case.
extractImages_finally(r) ==
    /\ pc[r] = "finally"
    /\ contexts' = contexts \ {<<r, locals[r].browser>>}
    /\ \/ Finish(r, locals[r].completion)
       \/ Finish(r, Failure(CloseError))
    /\ locals' = [locals EXCEPT ![r] = NoLocals]
    /\ UNCHANGED <<browser, launched, issued, bearerToken, net>>
    /\ UNCHANGED <<configVars, server>>

\* ------------------------------------------------- calls that are refused
UnknownTool == Err(<<"Unknown tool: ", "name">>, NoStatus, <<>>)

\* create_folders accepts at most this many folders
MaxFolders == 10

\* the arguments create_folders may be called with
FolderInputs == {"no folders", "empty array", "too many", "no path", "blank path", "valid"}

\* path: absent, '' (falsy), ' ' (blank) or a path
CreateFoldersArgs(input) ==
    CASE input = "no folders" -> EmptyObject
      [] input = "empty array" -> ("folders" :> <<>>)
      [] input = "too many" -> ("folders" :> [i \in 1..(MaxFolders + 1) |-> ("path" :> "/a")])
      [] input = "no path" -> ("folders" :> <<("path" :> "/a"), ("title" :> "t")>>)
      [] input = "blank path" -> ("folders" :> <<("path" :> " ")>>)
      [] input = "valid" -> ("folders" :> <<("path" :> "/a"), ("path" :> "/b")>>)

NoError == Err(<<>>, NoStatus, <<>>)

\* the validation at the top of createFolders: the error it throws
CreateFoldersError(args) ==
    IF "folders" \notin DOMAIN args \/ Len(args["folders"]) = 0
    THEN Err(<<"Missing required parameter: folders array is required and must contain at least one folder">>,
             NoStatus, <<>>)
    ELSE IF Len(args["folders"]) > MaxFolders
    THEN Err(<<"Too many folders: maximum 10 folders can be created in a single request">>,
             NoStatus, <<>>)
    ELSE IF \E i \in DOMAIN args["folders"] :
                "path" \notin DOMAIN args["folders"][i] \/ args["folders"][i]["path"] \in {"", " "}
    THEN LET i == CHOOSE i \in DOMAIN args["folders"] :
                      /\ "path" \notin DOMAIN args["folders"][i]
                            \/ args["folders"][i]["path"] \in {"", " "}
                      /\ \A j \in 1..(i - 1) :
                            /\ "path" \in DOMAIN args["folders"][j]
                            /\ args["folders"][j]["path"] \notin {"", " "}
         IN IF "path" \notin DOMAIN args["folders"][i] \/ args["folders"][i]["path"] = ""
            THEN Err(<<"Folder at index i is missing required property: path">>, NoStatus, <<>>)
            ELSE Err(<<"Folder at index i has invalid path: must be a non-empty string">>,
                     NoStatus, <<>>)
    ELSE NoError

\* In the arguments below "" stands for a property that is absent or
\* empty (both falsy) and <<>> for an array that is absent or empty.
Thrown(text) == Err(<<text>>, NoStatus, <<>>)

\* the validation at the top of createTask
CreateTaskArgs == [projectID : {"", "p1"}]

CreateTaskError(args) ==
    IF args.projectID = ""
    THEN Thrown("projectID is required to create a task")
    ELSE NoError

\* the validation at the top of createTaskPredecessor
CreateTaskPredecessorArgs == [taskID : {"", "t1"}, predecessorExpression : {"", "t0"}]

CreateTaskPredecessorError(args) ==
    IF args.taskID = ""
    THEN Thrown("taskID is required to create task predecessors")
    ELSE IF args.predecessorExpression = ""
    THEN Thrown("predecessorExpression is required to create task predecessors")
    ELSE NoError

\* the validation at the top of importAssetsFromUrl: the first file that
\* fails decides the error
ImportAssetsArgs ==
    [folder : {"", "/f"},
     files : {<<>>} \cup {<<file>> : file \in [fileName : {"", "a.png"},
                                              url : {"", "http://u", "http://host/a.png"}]}]

ImportAssetsError(args) ==
    IF args.folder = "" \/ Len(args.files) = 0
    THEN Thrown("Missing required parameters: folder and files array are required")
    ELSE LET file == args.files[1]
         IN  IF file.fileName = "" \/ file.url = ""
             THEN Thrown("File at index i is missing required properties: fileName and url")
             ELSE IF Len(file.url) < 10
             THEN Thrown("File at index i has invalid URL: must be at least 10 characters")
             ELSE NoError

\* the validation at the top of createContentFragment
validTypes ==
    {"text", "long-text", "number", "float-number", "date-time", "date", "time",
     "boolean", "enumeration", "tag", "content-fragment", "content-reference", "json"}

CreateContentFragmentArgs ==
    [title : {"", "t"}, modelId : {"", "m"}, parentPath : {"", "/p"},
     fields : {<<>>} \cup {<<field>> : field \in [name : {"", "n"}, type : {"", "text", "html"}]}]

CreateContentFragmentError(args) ==
    IF args.title = "" THEN Thrown("Missing required parameter: title is required")
    ELSE IF args.modelId = "" THEN Thrown("Missing required parameter: modelId is required")
    ELSE IF args.parentPath = "" THEN Thrown("Missing required parameter: parentPath is required")
    ELSE IF Len(args.fields) = 0 THEN NoError
    ELSE LET field == args.fields[1]
         IN  IF field.name = "" \/ field.type = ""
             THEN Thrown("Field at index i is missing required properties: name and type")
             ELSE IF field.type \notin validTypes
             THEN Thrown("Field at index i has invalid type")
             ELSE NoError

\* the errors the validation of the arguments of a tool call throws
WorkfrontValidationErrors ==
    ({CreateTaskError(args) : args \in CreateTaskArgs}
     \cup {CreateTaskPredecessorError(args) : args \in CreateTaskPredecessorArgs})
        \ {NoError}

AEMValidationErrors ==
    ({CreateFoldersError(CreateFoldersArgs(input)) : input \in FolderInputs}
     \cup {ImportAssetsError(args) : args \in ImportAssetsArgs}
     \cup {CreateContentFragmentError(args) : args \in CreateContentFragmentArgs})
        \ {NoError}

ValidationErrors(program) ==
    CASE program = "workfront" -> WorkfrontValidationErrors
      [] program = "aem" -> AEMValidationErrors
      [] OTHER -> {}

\* the errors the dispatch of a call may throw before its first await: an
\* unknown tool name; the validation of the arguments; extractImages
\* destructuring undefined arguments
Refusals(program) ==
    {UnknownTool} \cup ValidationErrors(program)
        \cup IF program = "playwright" THEN {TypeError} ELSE {}

\* (mutant) the arguments are validated after ensureValidToken has returned
CallToolRequest_throws_Late(r) ==
    /\ proc = "connected"
    /\ pc[r] \in {"idle", "ensured"}
    /\ \E e \in Refusals(server) :
         toolReply' = Answer(r, CallToolCatch(server, e))
    /\ pc' = [pc EXCEPT ![r] = "done"]
    /\ UNCHANGED <<tool, outcome, browserVars>>
    /\ UNCHANGED <<configVars, server, tokenVars>>

\* the handler is called and its dispatch throws at once: the catch returns
CallToolRequest_throws(r) ==
    /\ proc = "connected"
    /\ pc[r] = "idle"
    /\ \E e \in Refusals(server) :
         toolReply' = Answer(r, CallToolCatch(server, e))
    /\ pc' = [pc EXCEPT ![r] = "done"]
    /\ UNCHANGED <<tool, outcome, browserVars>>
    /\ UNCHANGED <<configVars, server, tokenVars>>

\* -------------------------------------------------------------- startup
\* the state of the logical requests
requestVars == <<issued, bearerToken, pc, tool, phase, requestOptions, net, outcome,
                 toolReply, browserVars>>

\* the top of the module: the check of the required variables exits the
\* process, or the configuration object is built
validateEnvironment ==
    /\ proc = "loading"
    /\ IF missingEnvVars(server, env) # {}
       THEN /\ proc' = "exited"
            /\ UNCHANGED imsConfig
       ELSE /\ proc' = "configured"
            /\ imsConfig' = ImsConfig(server, env)
    /\ UNCHANGED <<env, server, requestVars, queryVars, excelVars, pptxVars>>

\* server.start(): the transport connects and the handlers can be called,
\* or connect rejects and the catch exits the process
start ==
    /\ proc = "configured"
    /\ \E connects \in BOOLEAN :
         proc' = IF connects THEN "connected" ELSE "exited"
    /\ UNCHANGED <<env, imsConfig, server, requestVars, queryVars, excelVars, pptxVars>>

\* ------------------------------------------------------------ query tools
\* the head of the handler of a query tool: it builds the endpoint
getNames ==
    /\ query # NoQuery
    /\ queryEndpoint = NoEndpoint
    /\ queryEndpoint' = SearchEndpoint(query.tool, query.args)
    /\ UNCHANGED <<env, proc, imsConfig, server, requestVars, query, excelVars, pptxVars>>

\* ----------------------------------------------------------- Excel server
\* writeExcelFile(args): it validates the arguments, then writes the file
writeExcelFile ==
    /\ excelArgs # NoExcelArgs
    /\ written = NotCalled
    /\ IF WriteExcelError(excelArgs) # Valid
       THEN /\ written' = WriteExcelError(excelArgs)
            /\ disk' = disk
       ELSE /\ written' = Written
            /\ disk' = WrittenFile(excelArgs, disk)
    /\ UNCHANGED <<env, proc, imsConfig, server, requestVars, queryVars,
                   excelArgs, original, pptxVars>>

\* ------------------------------------------------------ PowerPoint server
\* the tool method throws: its catch wraps the error, the catch of the
\* handler wraps it again and the handler throws the McpError
PptxThrow(message) ==
    /\ pptxReply' = PptxHandlerCatch(PptxToolCatch(pptx.name, message))
    /\ pptxPc' = "done"

\* the handler is called: the switch calls the tool, which awaits
\* fs.access; the default case throws MethodNotFound inside the try
PptxCallTool ==
    /\ pptxPc = "called"
    /\ IF pptx.name \in PptxTools
       THEN /\ pptxPc' = "access"
            /\ UNCHANGED pptxReply
       ELSE /\ pptxReply' = PptxHandlerCatch(
                                McpError("MethodNotFound", <<"Unknown tool: ", "name">>).message)
            /\ pptxPc' = "done"
    /\ UNCHANGED <<pptx, slideIndex, openZips>>
    /\ UNCHANGED <<env, proc, imsConfig, server, requestVars, queryVars, excelVars>>

\* fs.access settles: the tool throws, or opens the archive with
\* new StreamZip.async and awaits entries() or entryData()
PptxAccess ==
    /\ pptxPc = "access"
    /\ IF pptx.file_path = "missing"
       THEN /\ PptxThrow(<<"ENOENT">>)
            /\ UNCHANGED openZips
       ELSE /\ openZips' = openZips \cup {pptx.file_path}
            /\ pptxPc' = IF pptx.name = "extract_slide_text" THEN "entryData" ELSE "entries"
            /\ UNCHANGED pptxReply
    /\ UNCHANGED <<pptx, slideIndex>>
    /\ UNCHANGED <<env, proc, imsConfig, server, requestVars, queryVars, excelVars>>

\* zip.entries() settles in readPPTX or listSlides; listSlides maps the
\* slide files to their numbers and awaits zip.close()
PptxEntries ==
    /\ pptxPc = "entries"
    /\ IF EntriesFail(pptx.file_path)
       THEN PptxThrow(<<"Bad archive">>)
       ELSE IF pptx.name = "read_pptx"
       THEN /\ pptxPc' = "entryData"
            /\ UNCHANGED pptxReply
       ELSE IF \E i \in 1..Len(SlideFiles(pptx.file_path)) :
                    NoSlideNumber(SlideFiles(pptx.file_path)[i])
       THEN PptxThrow(<<"Cannot read properties of null">>)
       ELSE /\ pptxPc' = "close"
            /\ UNCHANGED pptxReply
    /\ UNCHANGED <<pptx, slideIndex, openZips>>
    /\ UNCHANGED <<env, proc, imsConfig, server, requestVars, queryVars, excelVars>>

\* zip.entryData(slideFile) settles in the loop of readPPTX
PptxReadSlide ==
    /\ pptxPc = "entryData"
    /\ pptx.name = "read_pptx"
    /\ LET slideFile == SlideFiles(pptx.file_path)[slideIndex] IN
       IF EntryDataFails(pptx.file_path, slideFile)
       THEN /\ PptxThrow(<<"Entry not readable">>)
            /\ UNCHANGED slideIndex
       ELSE IF NoSlideNumber(slideFile)
       THEN /\ PptxThrow(<<"Cannot read properties of null">>)
            /\ UNCHANGED slideIndex
       ELSE /\ UNCHANGED pptxReply
            /\ IF slideIndex < Len(SlideFiles(pptx.file_path))
               THEN /\ slideIndex' = slideIndex + 1
                    /\ UNCHANGED pptxPc
               ELSE /\ pptxPc' = "close"
                    /\ UNCHANGED slideIndex
    /\ UNCHANGED <<pptx, openZips>>
    /\ UNCHANGED <<env, proc, imsConfig, server, requestVars, queryVars, excelVars>>

\* zip.entryData(slideFile) settles in the inner try of extractSlideText:
\* zip.close() is awaited in the try or in its catch
PptxExtractSlide ==
    /\ pptxPc = "entryData"
    /\ pptx.name = "extract_slide_text"
    /\ pptxPc' = IF EntryDataFails(pptx.file_path, SlideFile(pptx.slide_number))
                 THEN "closeInCatch"
                 ELSE "close"
    /\ UNCHANGED <<pptx, slideIndex, openZips, pptxReply>>
    /\ UNCHANGED <<env, proc, imsConfig, server, requestVars, queryVars, excelVars>>

\* zip.close() resolves: the tool returns its content, or the inner catch
\* of extractSlideText throws
PptxClose ==
    /\ pptxPc \in {"close", "closeInCatch"}
    /\ openZips' = openZips \ {pptx.file_path}
    /\ IF pptxPc = "close"
       THEN /\ pptxReply' = PptxResult
            /\ pptxPc' = "done"
       ELSE PptxThrow(<<"Slide n not found">>)
    /\ UNCHANGED <<pptx, slideIndex>>
    /\ UNCHANGED <<env, proc, imsConfig, server, requestVars, queryVars, excelVars>>

\* ----------------------------------------------------------------- Next
\* one synchronous run of logical request r of an adapter, or a call the
\* CallTool handler refuses
ServeAdapter(r) ==
        \/ makeWorkfrontRequest(r)
        \/ makeWorkfrontRequest_fetch(r)
        \/ makeWorkfrontRequest_response(r)
        \/ makeWorkfrontRequest_retry(r)
        \/ makeWorkfrontRequest_retryResponse(r)
        \/ makeAEMRequest(r)
        \/ makeAEMRequest_fetch(r)
        \/ makeAEMRequest_response(r)
        \/ getBearerToken(r)
        \/ ensureValidToken(r)
        \/ CallToolRequest_throws(r)

\* one synchronous run of logical request r of the Playwright server
ServePlaywright(r) ==
        \/ extractImages(r)
        \/ ensureBrowser(r)
        \/ extractImages_newContext(r)
        \/ extractImages_page(r)
        \/ extractImages_finally(r)

Serve(r) == ServeAdapter(r) \/ ServePlaywright(r)

Next == \E r \in Reqs : Serve(r)

Spec == Init /\ [][Next]_vars

\* the runs that resume a logical request after an await: the answer of
\* the token endpoint or of the downstream API, or a continuation the
\* event loop has queued
Resume(r) ==
    \/ makeWorkfrontRequest_fetch(r)
    \/ makeWorkfrontRequest_response(r)
    \/ makeWorkfrontRequest_retry(r)
    \/ makeWorkfrontRequest_retryResponse(r)
    \/ makeAEMRequest_fetch(r)
    \/ makeAEMRequest_response(r)
    \/ getBearerToken(r)
    \/ ensureValidToken(r)
    \/ ensureBrowser(r)
    \/ extractImages_newContext(r)
    \/ extractImages_page(r)
    \/ extractImages_finally(r)

\* every network call is answered (by a response or a transport error)
\* and the event loop runs every queued continuation
\* Termination is examined for the traced request and one request that
\* runs concurrently with it and shares the cached token.
Concurrent == Traced \cup {CHOOSE r \in Reqs : r \notin Traced}

NextFair == \E r \in Concurrent : Serve(r)

FairSpec == Init /\ [][NextFair]_vars /\ \A r \in Concurrent : WF_vars(Resume(r))

\* a process from its start, in any environment; one logical request shows
\* whether the process serves
InitStartup ==
    /\ server \in Adapters
    /\ env \in [EnvVars(server) -> EnvValues]
    /\ proc = "loading"
    /\ imsConfig = NoConfig
    /\ NoRequests
    /\ NoQueryCall
    /\ NoExcelCall
    /\ NoPptxCall

NextStartup ==
    \/ validateEnvironment
    \/ start
    \/ \E r \in Traced : ServeAdapter(r)

SpecStartup == InitStartup /\ [][NextStartup]_vars

\* a query tool of the Workfront adapter is called with any arguments
InitQuery ==
    /\ server = "workfront"
    /\ env = FullEnv(server)
    /\ proc = "connected"
    /\ imsConfig = ImsConfig(server, env)
    /\ NoRequests
    /\ NoExcelCall
    /\ NoPptxCall
    /\ query \in Queries
    /\ queryEndpoint = NoEndpoint

NextQuery == getNames

SpecQuery == InitQuery /\ [][NextQuery]_vars

\* write_excel_file is called with any arguments on any file
InitExcel ==
    /\ server = "excel"
    /\ env = <<>>
    /\ proc = "connected"
    /\ imsConfig = NoConfig
    /\ NoRequests
    /\ NoQueryCall
    /\ excelArgs \in ExcelCalls
    /\ original \in Files(excelArgs.file_path)
    /\ disk = original
    /\ written = NotCalled
    /\ NoPptxCall

NextExcel == writeExcelFile

SpecExcel == InitExcel /\ [][NextExcel]_vars

\* the PowerPoint server is called with any tool name on any file
InitPptx ==
    /\ server = "powerpoint"
    /\ env = <<>>
    /\ proc = "connected"
    /\ imsConfig = NoConfig
    /\ NoRequests
    /\ NoQueryCall
    /\ NoExcelCall
    /\ pptx \in PptxCalls
    /\ pptxPc = "called"
    /\ slideIndex = 1
    /\ openZips = {}
    /\ pptxReply = NoPptxReply

NextPptx ==
    \/ PptxCallTool
    \/ PptxAccess
    \/ PptxEntries
    \/ PptxReadSlide
    \/ PptxExtractSlide
    \/ PptxClose

SpecPptx == InitPptx /\ [][NextPptx]_vars

\* ------------------------------------------------------- type invariant
PCs == {"idle", "getBearerToken", "ensureValidToken", "ensured", "fetch",
        "renewed", "retryFetch", "launch", "newContext", "page", "finally", "done"}

TypeOK ==
    /\ server \in Servers \cup {"excel", "powerpoint"}
    /\ env \in [EnvVars(server) -> EnvValues]
    /\ proc \in {"loading", "configured", "connected", "exited"}
    /\ imsConfig \in {NoConfig} \cup {ImsConfig(a, env) : a \in {server} \cap Adapters}
    /\ issued \in 0..MaxTok
    /\ bearerToken \in {Null} \cup 1..issued
    /\ pc \in [Reqs -> PCs]
    /\ tool \in [Reqs -> Tools \cup {"none"}]
    /\ phase \in [Reqs -> {"none", "ensure", "renew"}]
    /\ \A r \in Reqs : toolReply[r].isError \in {"none", "absent", "true"}
    /\ launched \in 0..NumReqs
    /\ browser \in {Null} \cup 1..launched
    /\ contexts \subseteq Reqs \X (1..launched)
    /\ \A r \in Reqs : locals[r].browser \in {Null} \cup 1..launched
    /\ query \in Queries \cup {NoQuery}
    /\ queryEndpoint \in {NoEndpoint} \cup {SearchEndpoint(q.tool, q.args) : q \in Queries}
    /\ excelArgs \in ExcelCalls \cup {NoExcelArgs}
    /\ original \in UNION {Files(p) : p \in Paths}
    /\ written \in {NotCalled, Written} \cup {WriteExcelError(a) : a \in ExcelCalls}
    /\ pptx \in PptxCalls \cup {NoPptx}
    /\ pptxPc \in {"idle", "called", "access", "entries", "entryData", "close",
                  "closeInCatch", "done"}
    /\ slideIndex \in 1..2
    /\ openZips \subseteq PptxFiles
    /\ pptxReply.code \in {"none", "InternalError", "MethodNotFound"}

\* ============================================================ properties
Range(seq) == {seq[i] : i \in 1..Len(seq)}

Last(seq) == seq[Len(seq)]

\* the events of one type in the history of request r, in order
Events(r, type) == SelectSeq(net[r], LAMBDA e : e.type = type)

Requests(r) == Events(r, "request")
Responses(r) == Events(r, "response")
TokenCalls(r) == Events(r, "token_request")
TokenAnswers(r) == Events(r, "token_response")

\* the position of the first downstream response in the history (0: none)
FirstResponseAt(r) ==
    IF \E i \in 1..Len(net[r]) : net[r][i].type = "response"
    THEN CHOOSE i \in 1..Len(net[r]) :
            /\ net[r][i].type = "response"
            /\ \A j \in 1..(i - 1) : net[r][j].type # "response"
    ELSE 0

FirstIs401(r) == Len(Responses(r)) >= 1 /\ Responses(r)[1].status = 401

\* the events after the first downstream response
AfterFirstResponse(r) == SubSeq(net[r], FirstResponseAt(r) + 1, Len(net[r]))

RenewalCalls(r) == SelectSeq(AfterFirstResponse(r), LAMBDA e : e.type = "token_request")
RenewalAnswers(r) == SelectSeq(AfterFirstResponse(r), LAMBDA e : e.type = "token_response")

Issued(answer) == Ok(answer.status) /\ answer.access_token # Null

RenewalIssued(r) == Len(RenewalAnswers(r)) = 1 /\ Issued(RenewalAnswers(r)[1])

SameRequest(a, b) == a.url = b.url /\ a.method = b.method /\ a.body = b.body

HasAuthorization(request) == "Authorization" \in DOMAIN request.headers

Carries(request, token) ==
    HasAuthorization(request) /\ request.headers["Authorization"] = Bearer(token)

\* the error interpolates the status and the body of the response
CarriesResponse(e, status, body) ==
    e.status = status /\ e.body # <<>> /\ Last(e.body) = body

\* the outcome of the logical request is the outcome of the response
FinalFrom(r, response) ==
    IF Ok(response.status)
    THEN outcome[r].ok /\ outcome[r].value = response.body
    ELSE /\ ~outcome[r].ok
         /\ outcome[r].error.status = response.status
         /\ response.status # NoStatus => CarriesResponse(outcome[r].error, response.status, response.body)

Done(r) == pc[r] = "done"

\* the step in which request r calls ensureValidToken
CallsEnsureValidToken(r) == pc[r] = "idle" /\ pc'[r] \in {"getBearerToken", "ensured"}

\* ----------------------------------------------------------------- C1
\* C1 as stated: a Workfront logical request whose first downstream
\* response is 401 calls the token endpoint exactly once after it, re-issues
\* the same request exactly once carrying the newly issued token, and ends
\* with the outcome of the second response.
C1_AlwaysRetried ==
    \A r \in Traced :
        (server = "workfront" /\ Done(r) /\ FirstIs401(r)) =>
            /\ Len(RenewalCalls(r)) = 1
            /\ RenewalIssued(r)
            /\ Len(Requests(r)) = 2
            /\ SameRequest(Requests(r)[1], Requests(r)[2])
            /\ Carries(Requests(r)[2], RenewalAnswers(r)[1].access_token)
            /\ Len(Responses(r)) = 2
            /\ FinalFrom(r, Responses(r)[2])

\* the finished request: one renewal call; when it issued a token, one
\* re-issue of the same request whose response is final; otherwise failure
\* without a re-issue
C1_Final ==
    \A r \in Traced :
        (server = "workfront" /\ Done(r) /\ FirstIs401(r)) =>
            /\ Len(RenewalCalls(r)) = 1
            /\ Len(RenewalAnswers(r)) = 1
            /\ IF RenewalIssued(r)
               THEN /\ Len(Requests(r)) = 2
                    /\ SameRequest(Requests(r)[1], Requests(r)[2])
                    /\ HasAuthorization(Requests(r)[2])
                    /\ Len(Responses(r)) = 2
                    /\ FinalFrom(r, Responses(r)[2])
               ELSE /\ Len(Requests(r)) = 1
                    /\ ~outcome[r].ok

\* the renewal stores the newly issued token, and the re-issued request
\* carries the token cached when it is re-issued
C1_Step ==
    \A r \in Traced :
        /\ (pc[r] = "getBearerToken" /\ pc'[r] = "renewed") =>
               bearerToken' = Last(RenewalAnswers(r)').access_token
        /\ (pc[r] = "renewed" /\ pc'[r] = "retryFetch") =>
               Carries(Last(Requests(r)'), bearerToken)

\* C1 (amended): a Workfront logical request whose first downstream
\* response is 401 calls the token endpoint exactly once after it; if that
\* call issues a token, the cached token is replaced by it, the same request
\* is re-issued exactly once carrying the token cached at that moment, and
\* the outcome of the second response is final; if it does not, the logical
\* request fails without a re-issue.
C1_RenewOnceThenRetry == []C1_Final /\ [][C1_Step]_vars

C1_Witness ==
    \E r \in Traced :
        /\ server = "workfront" /\ Done(r) /\ FirstIs401(r)
        /\ RenewalIssued(r)
        /\ Len(Responses(r)) = 2
        /\ outcome[r].ok

\* ----------------------------------------------------------------- C2
\* C2: a logical request renews at most once: it issues at most 2
\* downstream requests and at most 2 token-endpoint calls, and a second
\* response (401 included) ends it, its failure being the final error.
C2_AtMostOneRenewal ==
    \A r \in Traced :
        /\ Len(Requests(r)) <= 2
        /\ Len(TokenCalls(r)) <= 2
        /\ Len(RenewalCalls(r)) <= 1
        /\ Len(Responses(r)) = 2 =>
               /\ Done(r)
               /\ Last(net[r]).type = "response"
               /\ FinalFrom(r, Responses(r)[2])

C2_Witness ==
    \E r \in Traced :
        /\ Done(r)
        /\ Len(Responses(r)) = 2
        /\ Responses(r)[1].status = 401
        /\ Responses(r)[2].status = 401
        /\ Len(TokenCalls(r)) = 2
        /\ outcome[r].error.status = 401

\* ----------------------------------------------------------------- C3
\* C3: every downstream request, first attempt or retry, of every tool,
\* carries Authorization: Bearer <token>.
C3_EveryRequestAuthorized ==
    \A r \in Traced :
        \A i \in 1..Len(Requests(r)) :
            \E t \in Tokens : Carries(Requests(r)[i], t)

\* ----------------------------------------------------------------- C4
\* C4: an AEM logical request whose first response is 401 performs exactly
\* one token renewal and exactly one re-issue of the request, the second
\* response being final.
C4_AEMRenewsOn401 ==
    \A r \in Traced :
        (server = "aem" /\ Done(r) /\ FirstIs401(r)) =>
            /\ Len(RenewalCalls(r)) = 1
            /\ Len(Requests(r)) = 2
            /\ Len(Responses(r)) = 2
            /\ FinalFrom(r, Responses(r)[2])

\* ----------------------------------------------------------------- C5
\* the step that issues a downstream request builds its Authorization
\* header from the token cached in that very step
C5_Issue ==
    \A r \in Reqs :
        (pc[r] \in {"ensured", "renewed"} /\ pc'[r] \in {"fetch", "retryFetch"}) =>
            /\ HasAuthorization(requestOptions'[r]) => Carries(requestOptions'[r], bearerToken')
            /\ r \in Traced =>
                   /\ Len(net'[r]) = Len(net[r]) + 1
                   /\ Last(net'[r]).type = "request"
                   /\ Last(net'[r]).headers = requestOptions'[r].headers

\* C5: under any interleaving, the token in the Authorization header of a
\* downstream request, first attempt or retry, is the cached token at the
\* moment the request is issued, never one read before a suspension.
C5_HeaderTokenIsCurrent == [][C5_Issue]_vars

\* the token a request's own renewal returned was overwritten by another
\* request before the retry was issued, and the retry carries the cached one
C5_Witness ==
    \E r \in Traced :
        /\ pc[r] = "retryFetch"
        /\ Last(net[r]).type = "request"
        /\ Carries(Last(net[r]), bearerToken)
        /\ net[r][Len(net[r]) - 1].type = "return"
        /\ net[r][Len(net[r]) - 1].value # bearerToken

\* ----------------------------------------------------------------- C6
\* C6: a response with a non-2xx status other than 401, to the first
\* attempt or to the retry, ends the logical request with an error carrying
\* the status and the body: nothing follows it on the network.
C6_OtherErrorsAreFinal ==
    \A r \in Traced :
        \A i \in 1..Len(net[r]) :
            (/\ net[r][i].type = "response"
             /\ net[r][i].status \notin {NoStatus, 401}
             /\ ~Ok(net[r][i].status)) =>
                /\ i = Len(net[r])
                /\ Done(r)
                /\ ~outcome[r].ok
                /\ CarriesResponse(outcome[r].error, net[r][i].status, net[r][i].body)

C6_Witness ==
    \E r \in Traced :
        /\ Done(r)
        /\ Len(Responses(r)) = 2
        /\ Responses(r)[2].status = 500
        /\ CarriesResponse(outcome[r].error, 500, Responses(r)[2].body)

\* ----------------------------------------------------------------- C7
\* the logical request found no cached token: its first act was a token call
StartedWithoutToken(r) == Len(net[r]) >= 2 /\ net[r][2].type = "token_request"

\* C7: a Workfront request that starts with no cached token, gets 401 and
\* then 200 returns the body of the second response after exactly two
\* token-endpoint calls.
C7_RenewedRequestSucceeds ==
    \A r \in Traced :
        (/\ server = "workfront" /\ Done(r)
         /\ StartedWithoutToken(r)
         /\ Len(Responses(r)) = 2
         /\ Responses(r)[1].status = 401
         /\ Responses(r)[2].status = 200) =>
            /\ outcome[r].ok
            /\ outcome[r].value = Responses(r)[2].body
            /\ Len(TokenCalls(r)) = 2
            /\ Len(TokenAnswers(r)) = 2
            /\ \A i \in 1..2 : Issued(TokenAnswers(r)[i])

C7_Witness ==
    \E r \in Traced :
        /\ server = "workfront" /\ Done(r)
        /\ StartedWithoutToken(r)
        /\ Len(Responses(r)) = 2
        /\ Responses(r)[1].status = 401
        /\ Responses(r)[2].status = 200
        /\ outcome[r].ok
        /\ outcome[r].value = "b2"

\* ----------------------------------------------------------------- C8
\* the step that calls ensureValidToken
C8_Call ==
    \A r \in Reqs :
        CallsEnsureValidToken(r) =>
            IF bearerToken # Null
            THEN /\ pc'[r] = "ensured"
                 /\ bearerToken' = bearerToken
                 /\ r \in Traced =>
                        /\ Len(net'[r]) = 2
                        /\ net'[r][2] = Returned("ensureValidToken", bearerToken)
            ELSE /\ pc'[r] = "getBearerToken"
                 /\ r \in Traced => Last(net'[r]) = TokenRequest

\* C8: ensureValidToken called while a token is cached makes no network
\* call, leaves the cached token unchanged and returns it; it calls
\* getBearerToken only when no token is cached.
C8_EnsureIsPresenceCheck == [][C8_Call]_vars

\* a request that found a token which had already been answered with 401
C8_Witness ==
    \E r \in Traced, q \in Reqs \ Traced :
        /\ pc[r] = "ensured"
        /\ Len(net[r]) = 2
        /\ net[r][2] = Returned("ensureValidToken", bearerToken)
        /\ pc[q] = "getBearerToken" /\ phase[q] = "renew"

\* ----------------------------------------------------------------- C9
\* what one step added to the history of request r
Added(r) == SubSeq(net'[r], Len(net[r]) + 1, Len(net'[r]))

\* the step in which the token endpoint answers
C9_Answer ==
    \A r \in Traced :
        (pc[r] = "getBearerToken" /\ pc'[r] # "getBearerToken") =>
            LET answer == Added(r)[1] IN
            /\ answer.type = "token_response"
            /\ Issued(answer) =>
                   /\ Len(Added(r)) = 2
                   /\ Added(r)[2] = Returned("getBearerToken", answer.access_token)
                   /\ bearerToken' = answer.access_token
                   /\ pc'[r] \in {"ensureValidToken", "renewed"}

\* C9: getBearerToken that receives a 2xx response with a non-empty
\* access_token T stores T as the cached token and returns T.
C9_AcquireStoresAndReturns == [][C9_Answer]_vars

C9_Witness ==
    \E r \in Traced :
        /\ pc[r] \in {"ensureValidToken", "renewed"}
        /\ Last(net[r]) = Returned("getBearerToken", bearerToken)
        /\ net[r][Len(net[r]) - 1].type = "token_response"
        /\ net[r][Len(net[r]) - 1].access_token = bearerToken
        /\ bearerToken \in Tokens

\* ---------------------------------------------------------------- C10
AuthenticationError == "Adobe IMS authentication error: "
NoTokenError == "No access_token received from Adobe IMS"

\* C10: a failing getBearerToken is not retried: its answer ends the
\* logical request.  A non-2xx answer fails with the authentication error
\* carrying status and body, a 2xx answer without access_token with the
\* different no-token error.
C10_AcquireFailsOnce ==
    \A r \in Traced :
        /\ \A i \in 1..Len(net[r]) :
              net[r][i].type = "token_request" =>
                  (i < Len(net[r]) => net[r][i + 1].type = "token_response")
        /\ \A i \in 1..Len(net[r]) :
              (net[r][i].type = "token_response" /\ ~Issued(net[r][i])) =>
                  /\ i = Len(net[r])
                  /\ Done(r)
                  /\ ~outcome[r].ok
                  /\ (net[r][i].status # NoStatus /\ ~Ok(net[r][i].status)) =>
                         /\ AuthenticationError \in Range(outcome[r].error.text)
                         /\ NoTokenError \notin Range(outcome[r].error.text)
                         /\ CarriesResponse(outcome[r].error, net[r][i].status, net[r][i].body)
                  /\ Ok(net[r][i].status) =>
                         /\ NoTokenError \in Range(outcome[r].error.text)
                         /\ AuthenticationError \notin Range(outcome[r].error.text)
                         /\ outcome[r].error.status = NoStatus

C10_Witness ==
    \E r \in Traced :
        /\ Done(r)
        /\ net[r] # <<>>
        /\ Last(net[r]).type = "token_response"
        /\ Last(net[r]).status = 200
        /\ Last(net[r]).access_token = Null
        /\ NoTokenError \in Range(outcome[r].error.text)

\* ---------------------------------------------------------------- C11
\* the logical requests whose token-endpoint call has not been answered
InFlight == {r \in Reqs : pc[r] = "getBearerToken"}

\* a logical request that finds no cached token, or whose first response
\* is 401, adds its own call to the calls already in flight
C11_Start ==
    \A r \in Reqs :
        /\ (CallsEnsureValidToken(r) /\ bearerToken = Null) =>
               InFlight' = InFlight \cup {r}
        /\ (r \in Traced /\ pc[r] = "fetch" /\ pc'[r] # "fetch"
              /\ server = "workfront" /\ Added(r)[1].status = 401) =>
               /\ InFlight' = InFlight \cup {r}
               /\ Last(Added(r)) = TokenRequest

\* C11: token acquisition is not coordinated between concurrent logical
\* requests: a request that finds the token absent, or receives 401, starts
\* its own token-endpoint call whether or not another call is in flight, so
\* that two token-endpoint calls can be in flight at the same time.
C11_UncoordinatedAcquire == [][C11_Start]_vars

\* two token-endpoint calls in flight, both started because the token was
\* absent
C11_Witness ==
    \E r \in Traced, q \in Reqs \ Traced :
        /\ {r, q} \subseteq InFlight
        /\ phase[r] = "ensure" /\ phase[q] = "ensure"
        /\ bearerToken = Null
        /\ TokenCalls(r) = <<TokenRequest>>
        /\ TokenAnswers(r) = <<>>

\* two token-endpoint calls in flight, both started by a 401
C11_WitnessRenewals ==
    \E r \in Traced, q \in Reqs \ Traced :
        /\ {r, q} \subseteq InFlight
        /\ phase[r] = "renew" /\ phase[q] = "renew"
        /\ FirstIs401(r)

\* ---------------------------------------------------------------- C12
\* every token-endpoint call in the history is the first thing the logical
\* request does, or directly follows the 401 to its first attempt
C12_History ==
    \A r \in Traced :
        \A i \in 1..Len(net[r]) :
            net[r][i].type = "token_request" =>
                \/ i = 2 /\ net[r][1].type = "call"
                \/ /\ i - 1 = FirstResponseAt(r)
                   /\ net[r][i - 1].status = 401
                   /\ server = "workfront"

\* the step that puts a token-endpoint call in flight
C12_Call ==
    \A r \in InFlight' \ InFlight :
        \/ pc[r] = "idle" /\ bearerToken = Null
        \/ /\ pc[r] = "fetch"
           /\ server = "workfront"
           /\ r \in Traced => Added(r) = <<[type |-> "response", status |-> 401,
                                            body |-> NoBody], TokenRequest>>

\* C12: renewal is reactive only: the token endpoint is called only when a
\* logical request finds no cached token, or immediately after a 401
\* response to the first attempt of a logical request; there is no call at
\* startup and none in any other situation.
C12_ReactiveOnly ==
    /\ [](C12_History /\ ((\A r \in Reqs : pc[r] = "idle") => issued = 0))
    /\ [][C12_Call]_vars

\* a request that called the token endpoint for both reasons
C12_Witness ==
    \E r \in Traced :
        /\ Done(r)
        /\ Len(TokenCalls(r)) = 2
        /\ net[r][2].type = "token_request"
        /\ FirstIs401(r)
        /\ net[r][FirstResponseAt(r) + 1].type = "token_request"

\* ---------------------------------------------------------------- C13
\* the step of request r is a getBearerToken that was issued a token
AcquiredBy(r) ==
    /\ pc[r] = "getBearerToken"
    /\ pc'[r] \in {"ensureValidToken", "renewed"}
    /\ issued' = issued + 1
    /\ r \in Traced =>
           /\ Issued(Added(r)[1])
           /\ Added(r)[1].access_token = bearerToken'

C13_Step ==
    /\ bearerToken # Null => bearerToken' # Null
    /\ bearerToken' # bearerToken => \E r \in Reqs : AcquiredBy(r)

\* C13: the cached token is never cleared: once it holds a token it holds
\* one after every operation, successful or failed; its value changes only
\* by being overwritten by a successful acquire.
C13_NeverCleared == [][C13_Step]_vars

\* the token is still cached after a renewal failed
C13_Witness ==
    \E r \in Traced :
        /\ Done(r)
        /\ FirstIs401(r)
        /\ Last(net[r]).type = "token_response"
        /\ ~Issued(Last(net[r]))
        /\ bearerToken # Null
        /\ Carries(Requests(r)[1], bearerToken)

\* ---------------------------------------------------------------- C20
\* the initial acquisition of request r was answered without a token
InitialAcquireFailed(r) ==
    /\ StartedWithoutToken(r)
    /\ Len(net[r]) >= 3
    /\ net[r][3].type = "token_response"
    /\ ~Issued(net[r][3])

C20_Final ==
    \A r \in Traced :
        InitialAcquireFailed(r) =>
            /\ Done(r)
            /\ Len(net[r]) = 3
            /\ Requests(r) = <<>>
            /\ ~outcome[r].ok

C20_Step ==
    /\ \A r \in Traced :
           (~InitialAcquireFailed(r) /\ InitialAcquireFailed(r)') =>
               /\ bearerToken' = bearerToken
               /\ issued' = issued
    /\ \A r \in Traced, q \in Reqs :
           (InitialAcquireFailed(r) /\ bearerToken = Null /\ CallsEnsureValidToken(q)) =>
               q \in InFlight'

\* C20: when the initial token acquisition of a logical request fails (no
\* token cached; the token endpoint answers non-2xx or without
\* access_token), the logical request ends without sending a downstream
\* request, the failed acquisition leaves the cached token as it was
\* (absent stays absent), and a logical request that starts afterwards
\* calls the token endpoint again.
C20_InitialFailure == []C20_Final /\ [][C20_Step]_vars

\* after the failure no token is cached and another request has called
\* the token endpoint
C20_Witness ==
    \E r \in Traced, q \in Reqs \ Traced :
        /\ InitialAcquireFailed(r)
        /\ Done(r)
        /\ bearerToken = Null
        /\ issued = 0
        /\ q \in InFlight

\* ---------------------------------------------------------------- C14
\* the client id or the client secret is absent (or empty)
CredentialsMissing == Falsy(env[clientId]) \/ Falsy(env[clientSecret])

\* no logical request has started and no network call has been made
NothingServed ==
    /\ \A r \in Reqs : pc[r] = "idle"
    /\ \A r \in Traced : net[r] = <<>>
    /\ issued = 0
    /\ bearerToken = Null

C14_Never ==
    CredentialsMissing =>
        /\ proc \in {"loading", "exited"}
        /\ imsConfig = NoConfig
        /\ NothingServed

C14_Exit ==
    (CredentialsMissing /\ proc = "loading" /\ proc' # proc) => proc' = "exited"

\* C14: when the client id or the client secret is absent at process
\* start, the process exits before the server is connected, before any
\* tool request is served and before any network call, for every
\* combination of missing required variables.
C14_ExitsBeforeServing == []C14_Never /\ [][C14_Exit]_vars

\* the process has exited because the client secret alone is missing
C14_Witness ==
    /\ proc = "exited"
    /\ env[clientSecret] = "unset"
    /\ \A name \in EnvVars(server) \ {clientSecret} : env[name] = "set"
    /\ NothingServed

\* ---------------------------------------------------------------- C15
\* the process has passed the startup check
Started == proc \in {"configured", "connected"}

\* C15 as stated: client id, client secret, token URL and scope are all
\* required: startup fails if any one of them is absent.
C15_AllFourRequired ==
    \A name \in {clientId, clientSecret, tokenUrl, scope} :
        env[name] = "unset" => ~Started

C15_Config ==
    Started =>
        /\ \A name \in {BaseUrlVar(server), clientId, clientSecret} : env[name] = "set"
        /\ imsConfig.clientId = clientId
        /\ imsConfig.clientSecret = clientSecret
        /\ imsConfig.tokenUrl = IF env[tokenUrl] = "set" THEN tokenUrl ELSE DefaultTokenUrl
        /\ imsConfig.scope = IF env[scope] = "set" THEN scope ELSE DefaultScope(server)

C15_Check ==
    (proc = "loading" /\ proc' # proc) =>
        IF \E name \in {BaseUrlVar(server), clientId, clientSecret} : env[name] # "set"
        THEN proc' = "exited"
        ELSE proc' = "configured"

\* C15 (amended): the base URL, the client id and the client secret are
\* required and checked at startup, which exits if one of them is absent;
\* the token URL and the scope are optional: when absent the built-in
\* default is used and startup goes on.
C15_RequiredAndDefaulted == []C15_Config /\ [][C15_Check]_vars

\* a process without token URL and scope is connected and has called the
\* default token endpoint with the default scope
C15_Witness ==
    \E r \in Traced :
        /\ proc = "connected"
        /\ env[tokenUrl] = "unset"
        /\ env[scope] = "unset"
        /\ Len(net[r]) >= 2
        /\ net[r][2].type = "token_request"
        /\ net[r][2].url = DefaultTokenUrl
        /\ net[r][2].body.scope = DefaultScope(server)

\* ---------------------------------------------------------------- C16
Running(r) == pc[r] \notin {"idle", "done"}

\* a logical request that has ended has succeeded or failed with an error
C16_Terminal ==
    \A r \in Traced :
        (Done(r) /\ net[r] # <<>>) => (outcome[r].ok \/ outcome[r].error.text # <<>>)

\* C16: every logical request, started with or without a cached token,
\* eventually ends in success or failure, provided every network call it
\* issues is answered; it cannot cycle between renewal and retry forever.
C16_Terminates ==
    /\ []C16_Terminal
    /\ \A r \in Reqs : Running(r) ~> Done(r)

\* a request that found a cached token, was answered 401, renewed and
\* ended with the answer to its retry
C16_Witness ==
    \E r \in Traced :
        /\ Done(r)
        /\ Len(net[r]) = 9
        /\ net[r][2].type = "return"
        /\ FirstIs401(r)
        /\ Len(Requests(r)) = 2
        /\ Len(Responses(r)) = 2
        /\ Len(net[r]) = 9

\* ---------------------------------------------------------------- C17
\* the reply carries `Error: ${error.message}` for error e
ErrorReply(returned, e) ==
    /\ Len(returned.text) = 1 + Len(e.text)
    /\ returned.text[1] = "Error: "
    /\ SubSeq(returned.text, 2, Len(returned.text)) = e.text
    /\ returned.status = e.status
    /\ returned.body = e.body

\* the handler can be called for request q
CallTool(q) ==
    \/ makeWorkfrontRequest(q)
    \/ makeAEMRequest(q)
    \/ extractImages(q)
    \/ CallToolRequest_throws(q)

\* the dispatch threw before the tool made a logical request
Refused(r) == Done(r) /\ ~outcome[r].ok /\ outcome[r].error.text = <<>>

C17_Replied ==
    /\ proc = "connected"
    /\ \A q \in Reqs : pc[q] = "idle" => ENABLED CallTool(q)
    /\ \A r \in Traced :
           Done(r) =>
               /\ toolReply[r] # NoReply
               /\ IF Refused(r)
                  THEN \E e \in Refusals(server) : ErrorReply(toolReply[r], e)
                  ELSE ~outcome[r].ok =>
                           \E e \in {outcome[r].error,
                                     Wrap("Project creation error: ", outcome[r].error)} :
                               ErrorReply(toolReply[r], e)
               /\ (server \in Adapters /\ ~outcome[r].ok) => toolReply[r].isError = "true"

\* the step in which the handler returns for request r
C17_Return ==
    \A r \in Reqs :
        (~Done(r) /\ Done(r)') =>
            /\ proc' = "connected"
            /\ \A q \in Reqs \ {r} : pc'[q] = pc[q]

C17_WitnessPlaywright ==
    \E r \in Traced :
        /\ server = "playwright"
        /\ Done(r)
        /\ ErrorReply(toolReply[r], PageError)
        /\ contexts = {}

\* ------------------------------------------------------------------ C18
\* a query tool has been called without `limit` and has built its endpoint
LimitOmitted == queryEndpoint # NoEndpoint /\ query.args.limit = Undefined

\* C18: get_project_names called without a limit argument sends the
\* documented default limit of 50 as $$LIMIT, and for each paginated query
\* tool the documented default is the value its handler sends when the
\* argument is omitted.  getProjectNames falls back to 20, not to 50.
C18_DocumentedDefaults ==
    LimitOmitted => queryEndpoint.LIMIT = SchemaLimit(query.tool)

\* the four other query tools do send their documented default
C18_OtherTools ==
    (LimitOmitted /\ query.tool # "get_project_names")
        => queryEndpoint.LIMIT = SchemaLimit(query.tool)

\* get_project_names was called without `limit` and sent $$LIMIT=20
C18_Sends20 ==
    /\ LimitOmitted
    /\ query.tool = "get_project_names"
    /\ queryEndpoint.LIMIT = 20

\* ------------------------------------------------------------------ C19
\* the sheet a call of write_excel_file targets; a .csv file has one sheet
TargetSheet(args) ==
    CASE extname(args.file_path) = ".csv" -> "Sheet1"
      [] args.sheet_name = "" -> "Sheet1"
      [] OTHER -> args.sheet_name

\* the rows stored in a sheet of a file
StoredRows(file, sheetName) ==
    IF file.exists /\ file.Sheets[sheetName].present
    THEN sheet_to_json(file.Sheets[sheetName])
    ELSE <<>>

\* write_excel_file has written the file
HasWritten == written = Written

\* C19: write_excel_file with append=true on a file that already exists
\* keeps every row previously stored in the target sheet and adds the new
\* rows after them, for .xlsx and for .csv; with append=false (the default)
\* the target sheet holds the new rows only.  For .csv the code discards
\* the previous rows whatever `append` is.
C19_AppendKeepsRows ==
    HasWritten =>
        StoredRows(disk, TargetSheet(excelArgs)) =
            IF excelArgs.append = "true" /\ original.exists
            THEN StoredRows(original, TargetSheet(excelArgs)) \o excelArgs.data
            ELSE excelArgs.data

\* the same for every target that is not a .csv file
C19_ExcelTargets ==
    (HasWritten /\ extname(excelArgs.file_path) # ".csv") => C19_AppendKeepsRows

\* append=true on a .csv file that had rows: the rows are gone
C19_CsvRowsLost ==
    /\ HasWritten
    /\ extname(excelArgs.file_path) = ".csv"
    /\ excelArgs.append = "true"
    /\ StoredRows(original, "Sheet1") # <<>>
    /\ StoredRows(disk, "Sheet1") = excelArgs.data

\* append=true on an .xlsx file that had rows in the target sheet
C19_XlsxAppended ==
    /\ HasWritten
    /\ extname(excelArgs.file_path) = ".xlsx"
    /\ excelArgs.append = "true"
    /\ StoredRows(original, TargetSheet(excelArgs)) # <<>>
    /\ Len(StoredRows(disk, TargetSheet(excelArgs))) > Len(excelArgs.data)

\* ---------------------------------------------------------------- C21
\* the renewal of request r (the token call after its 401) was answered
\* without a token
RenewalFailed(r) ==
    /\ FirstIs401(r)
    /\ Len(RenewalAnswers(r)) = 1
    /\ ~Issued(RenewalAnswers(r)[1])

C21_Final ==
    \A r \in Traced :
        (server = "workfront" /\ RenewalFailed(r)) =>
            /\ Done(r)
            /\ ~outcome[r].ok
            /\ Len(Requests(r)) = 1
            /\ Len(Responses(r)) = 1
            /\ Last(net[r]).type = "token_response"

C21_Step ==
    \A r \in Traced :
        (server = "workfront" /\ net'[r] # net[r] /\ ~RenewalFailed(r) /\ RenewalFailed(r)') =>
            /\ pc[r] = "getBearerToken"
            /\ bearerToken' = bearerToken

\* C21: in the Workfront adapter, when the renewal acquisition triggered by
\* a 401 fails, the logical request ends in failure without sending the
\* retry request, and the failed renewal leaves the cached token as it was:
\* the rejected token is neither cleared nor replaced.
C21_FailedRenewal == []C21_Final /\ [][C21_Step]_vars

\* a request sent with the cached token got 401, its renewal failed, and
\* the token it was sent with is still the cached one
C21_Witness ==
    \E r \in Traced :
        /\ server = "workfront"
        /\ RenewalFailed(r)
        /\ Done(r)
        /\ HasAuthorization(Requests(r)[1])
        /\ Carries(Requests(r)[1], bearerToken)
        /\ RenewalAnswers(r)[1].status = 400

\* ---------------------------------------------------------------- C22
\* The token endpoint hands out the tokens 1, 2, ... in the order in which
\* its successful responses complete, so `issued` is the access_token of
\* the most recently completed successful response (0: there is none).
C22_Cached ==
    /\ bearerToken # Null => bearerToken = issued
    /\ bearerToken \in {Null} \cup 1..issued

\* a successful token response that completes is stored at once
C22_Complete ==
    \A r \in Traced :
        (Len(net'[r]) > Len(net[r]) /\ Added(r)[1].type = "token_response"
            /\ Issued(Added(r)[1])) =>
                /\ bearerToken' = Added(r)[1].access_token
                /\ bearerToken' = issued'

\* C22: in every reachable state, under any interleaving of concurrent
\* logical requests, the cached token is absent or is the access_token of
\* the most recently completed successful token-endpoint response (the last
\* completed acquire wins); it is never a value the endpoint did not issue.
C22_LastAcquireWins == []C22_Cached /\ [][C22_Complete]_vars

\* the token the traced request acquired has been overwritten by the
\* acquire of a concurrent request that completed later
C22_Witness ==
    \E r \in Traced :
        /\ TokenAnswers(r) # <<>>
        /\ Issued(TokenAnswers(r)[1])
        /\ TokenAnswers(r)[1].access_token = 1
        /\ ~Done(r)
        /\ bearerToken = 2
        /\ issued = 2

\* ---------------------------------------------------------------- C23
\* the handler has answered request r with a validation error
Rejected(r) ==
    \E e \in ValidationErrors(server) : ErrorReply(toolReply[r], e)

C23_Final ==
    \A r \in Traced : Rejected(r) => (Done(r) /\ net[r] = <<>>)

C23_Reject ==
    \A r \in Reqs :
        (toolReply'[r] # toolReply[r] /\ ~Rejected(r) /\ Rejected(r)') =>
            /\ pc[r] = "idle"
            /\ UNCHANGED <<net, issued, bearerToken>>

\* C23: input-shape validation precedes all network activity: a tool call
\* rejected for missing or invalid arguments (create_task,
\* create_task_predecessor, create_folders, import_assets_from_url,
\* create_content_fragment) makes no token-endpoint call and no downstream
\* request, and leaves the cached token unchanged.
C23_ValidationFirst == []C23_Final /\ [][C23_Reject]_vars

\* create_content_fragment was rejected for a field type while no token
\* was cached, and no token call was made
C23_Witness ==
    \E r \in Traced :
        /\ server = "aem"
        /\ ErrorReply(toolReply[r], Thrown("Field at index i has invalid type"))
        /\ net[r] = <<>>
        /\ bearerToken = Null
        /\ issued = 0

\* create_task_predecessor was rejected while a token was cached
C23_WitnessWorkfront ==
    \E r \in Traced :
        /\ server = "workfront"
        /\ ErrorReply(toolReply[r],
                      Thrown("predecessorExpression is required to create task predecessors"))
        /\ net[r] = <<>>
        /\ bearerToken # Null

\* ---------------------------------------------------------------- C24
\* C24: the Playwright adapter launches at most one browser per process:
\* under any sequence or interleaving of extract_images calls, including
\* calls that overlap while no browser has been launched yet,
\* chromium.launch is invoked at most once and every call uses that same
\* browser.  Two calls that both find this.browser empty both launch.
C24_SingleBrowser ==
    /\ launched <= 1
    /\ \A r \in Reqs : locals[r].browser \in {Null, browser}

\* calls that start after a launch has resolved use the browser it stored
C24_Reuse ==
    \A r \in Reqs :
        (pc[r] = "idle" /\ browser # Null /\ pc'[r] # "idle" /\ tool'[r] = "extract_images") =>
            /\ pc'[r] = "newContext"
            /\ locals'[r].browser = browser
            /\ launched' = launched

C24_ReusesStoredBrowser == [][C24_Reuse]_vars

\* two overlapping calls have launched a browser each and hold different
\* browsers
C24_TwoBrowsers ==
    \E r, q \in Reqs :
        /\ launched = 2
        /\ locals[r].browser = 1
        /\ locals[q].browser = 2
        /\ browser = 2

\* ---------------------------------------------------------------- C25
\* the contexts request r has open
ContextsOf(r) == {c \in contexts : c[1] = r}

\* only a call between newContext and the end of its finally has a
\* context, and it has one
C25_Closed ==
    \A r \in Reqs :
        /\ pc[r] \in {"idle", "launch", "newContext", "done"} => ContextsOf(r) = {}
        /\ pc[r] \in {"page", "finally"} => ContextsOf(r) = {<<r, locals[r].browser>>}

\* a call that has a context returns through the finally, which closes it
C25_Return ==
    \A r \in Reqs :
        /\ (ContextsOf(r) # {} /\ Done(r)') => (pc[r] = "finally" /\ ContextsOf(r)' = {})
        /\ (pc[r] = "page" /\ pc'[r] # "page") => pc'[r] = "finally"

\* C25: every browser context created by an extract_images call is closed
\* before that call returns, on the success path and on every failure path
\* (navigation error, timeout, evaluation error); after any sequence of
\* completed calls no context remains open.
C25_ContextsClosed == []C25_Closed /\ [][C25_Return]_vars

\* a call whose try block threw has returned its error, another call has
\* returned images, and no context is open
C25_Witness ==
    \E r \in Traced, q \in Reqs \ Traced :
        /\ server = "playwright"
        /\ Done(r) /\ ~outcome[r].ok /\ outcome[r].error = PageError
        /\ Done(q)
        /\ launched >= 1
        /\ contexts = {}

\* ---------------------------------------------------------------- C26
\* the handler of the PowerPoint server has answered
PptxDone == pptxPc = "done"

\* C26: every zip archive handle opened by a PowerPoint tool (read_pptx,
\* list_slides, extract_slide_text) is closed before the tool call
\* returns, on the success path and on every failure path (unreadable
\* archive, entry read error, missing slide).  readPPTX and listSlides
\* close the archive on their success path only.
C26_ZipsClosed == PptxDone => openZips = {}

\* a call that returns its content, and every call of extract_slide_text,
\* has closed the archive
C26_ClosedOnSuccess ==
    (PptxDone /\ (pptxReply = PptxResult \/ pptx.name = "extract_slide_text"))
        => openZips = {}

\* read_pptx has failed on an entry it could not read and the archive is
\* still open
C26_Leak ==
    /\ PptxDone
    /\ pptx.name = "read_pptx"
    /\ pptx.file_path = "corrupt"
    /\ pptxReply.code = "InternalError"
    /\ openZips = {"corrupt"}

\* extract_slide_text has failed on a missing slide and closed the archive
C26_MissingSlideClosed ==
    /\ PptxDone
    /\ pptx.name = "extract_slide_text"
    /\ pptx.file_path = "deck"
    /\ pptx.slide_number = 3
    /\ pptxReply.code = "InternalError"
    /\ openZips = {}

\* ---------------------------------------------------------------- C27
\* C27: in the PowerPoint adapter, a tool call with an unknown tool name
\* is answered with an error whose code is MethodNotFound, while a failure
\* inside a known tool is answered with an error whose code is
\* InternalError.  The MethodNotFound error is thrown inside the try whose
\* catch answers InternalError.
C27_ErrorCodes ==
    PptxDone =>
        /\ pptx.name \notin PptxTools => pptxReply.code = "MethodNotFound"
        /\ (pptx.name \in PptxTools /\ pptxReply # PptxResult) =>
               pptxReply.code = "InternalError"

\* a failure inside a known tool is answered with InternalError
C27_KnownToolFailures ==
    (PptxDone /\ pptx.name \in PptxTools /\ pptxReply # PptxResult) =>
        /\ pptxReply.code = "InternalError"
        /\ pptxReply.message[1] = "Tool execution failed: "

\* an unknown tool name has been answered with InternalError
C27_UnknownIsInternalError ==
    /\ PptxDone
    /\ pptx.name = "unknown"
    /\ pptxReply.code = "InternalError"
    /\ pptxReply.message = <<"Tool execution failed: ", "Unknown tool: ", "name">>

====
